---------------------------- MODULE Spec2Model ----------------------------
(***************************************************************************)
(* Transpose optimizer of the ONNX layout transformation library           *)
(* (src/unnamed/part_000): permutation algebra, graph-edit helpers,        *)
(* cost model, per-operator handlers and the OptimizeImpl driver, over     *)
(* an explicit graph (nodes, value infos, initializers) with a tensor      *)
(* semantics of the operators used to state output preservation.           *)
(*                                                                         *)
(* Vectors are 1-indexed sequences holding the 0-based values of the       *)
(* source; At(s, i) reads the source's s[i].  Value names are naturals,    *)
(* 0 being the empty string (an absent optional input).                    *)
(***************************************************************************)
EXTENDS Integers, Sequences, FiniteSets, TLC

(* ---------------------------- bounds ----------------------------------- *)
\* Largest rank of the permutations enumerated for the parametric graphs.
MaxRank == 3

\* The largest number of consecutive Optimize calls on one graph.
MaxCalls == 2

\* The largest number of tokens (batch_size * sequence_length) of a
\* QEmbedLayerNorm call, and the hidden size of its embeddings.
MaxTokens == 3

HiddenSize == 2

(* ------------------------- vector helpers ------------------------------ *)
At(s, i) == s[i + 1]

\* The sequence f as a tuple (index vectors are tuples).
Tup(f) == SubSeq(f, 1, Len(f))

Iota(n) == Tup([k \in 1..n |-> k - 1])

Range(s) == {s[k] : k \in DOMAIN s}

Max2(a, b) == IF a >= b THEN a ELSE b

\* The subsequence of s at the (1-based, ascending) positions satisfying keep.
RECURSIVE SelectIdx(_, _, _)
SelectIdx(s, keep, k) ==
  IF k > Len(s) THEN <<>>
  ELSE (IF keep[k] THEN <<s[k]>> ELSE <<>>) \o SelectIdx(s, keep, k + 1)

\* Ascending sequence of the members of a finite set of integers.
RECURSIVE SortedSeq(_)
SortedSeq(S) ==
  IF S = {} THEN <<>>
  ELSE LET m == CHOOSE x \in S : \A y \in S : x <= y
       IN <<m>> \o SortedSeq(S \ {m})

(* ----------------------- permutation algebra --------------------------- *)
IsValidPerm(perm) ==
  /\ \A k \in DOMAIN perm : perm[k] >= 0 /\ perm[k] < Len(perm)
  /\ \A k, l \in DOMAIN perm : k # l => perm[k] # perm[l]

InvertPerm(perm) ==
  Tup([j \in 1..Len(perm) |-> (CHOOSE i \in 1..Len(perm) : perm[i] = j - 1) - 1])

\* ComposePerm with the operands in the other order.
ComposePermSwapped(perm1, perm2) == Tup([k \in DOMAIN perm1 |-> At(perm2, perm1[k])])

ComposePerm(perm1, perm2) ==
  Tup([k \in 1..Len(perm2) |-> At(perm1, perm2[k])])

IsIdentityPerm(perm) == \A k \in DOMAIN perm : perm[k] = k - 1

ChannelLastToFirstPerm(rank) ==
  Tup([k \in 1..rank |-> IF k = 1 THEN 0 ELSE IF k = 2 THEN rank - 1 ELSE k - 2])

\* The indices of p that ChannelLastToFirstPerm(rank) writes: p[0] and p[1]
\* whatever the rank, then p[2] to p[rank - 1].
ChannelLastToFirstPermWrites(rank) == {0, 1} \cup 2..(rank - 1)

\* Valid permutations of rank r.
Perms(r) == {Tup(p) : p \in {p \in [1..r -> 0..(r - 1)] : IsValidPerm(p)}}


(* ------------------------- axes utilities ------------------------------ *)
\* NormalizeAndValidateAxes: rank is added to the negative entries, and only
\* those entries are range-checked and checked against each other.
NormalizeAndValidateAxes(axes, rank) ==
  LET neg == {k \in DOMAIN axes : axes[k] < 0}
      ok  == /\ \A k \in neg : axes[k] + rank >= 0
             /\ \A k, l \in neg : k # l => axes[k] # axes[l]
  IN [ok |-> ok,
      axes |-> Tup([k \in DOMAIN axes |-> IF axes[k] < 0 THEN axes[k] + rank ELSE axes[k]])]

NormalizeAndValidateAxis(axis, rank) ==
  LET a == IF axis < 0 THEN axis + rank ELSE axis
  IN [ok |-> a >= 0 /\ a < rank, axis |-> a]

\* Number of members of A below x.
CountBelow(A, x) == Cardinality({a \in A : a < x})

UnsqueezeShape(shape, axes) ==
  LET new_rank == Len(shape) + Len(axes)
      added    == Range(axes)
  IN Tup([k \in 1..new_rank |->
        IF (k - 1) \in added THEN 1
        ELSE At(shape, (k - 1) - CountBelow(added, k - 1))])

UnsqueezePerm(axes, perm) ==
  LET new_rank == Len(perm) + Len(axes)
      added    == Range(axes)
      axes_map == SortedSeq((0..(new_rank - 1)) \ added)
  IN Tup([k \in 1..new_rank |->
        IF (k - 1) \in added THEN k - 1
        ELSE At(axes_map, At(perm, (k - 1) - CountBelow(added, k - 1)))])

\* SqueezePerm walking the retained axes in ascending order, not in perm's.
SqueezePermAscending(axes, perm) ==
  Tup([k \in 1..Cardinality((0..(Len(perm) - 1)) \ Range(axes)) |-> k - 1])

SqueezePerm(axes, perm) ==
  LET removed == Range(axes)
      kept    == SelectIdx(perm, Tup([k \in DOMAIN perm |-> perm[k] \notin removed]), 1)
  IN Tup([k \in DOMAIN kept |-> kept[k] - CountBelow(removed, kept[k])])

AxesForTransposedInput(axes, perm) == Tup([k \in DOMAIN axes |-> At(perm, axes[k])])

\* SortedAxesForTransposedInput without the sort.
ImageInGivenOrder(axes, perm) == Tup([k \in DOMAIN axes |-> At(perm, axes[k])])

SortedAxesForTransposedInput(axes, perm) == SortedSeq({At(perm, axes[k]) : k \in DOMAIN axes})


(* --------------------------- tensors ----------------------------------- *)
\* A runtime tensor is [shape, elems]: elems maps every index tuple of the
\* shape to a symbolic element.  An element is a record of uniform type:
\* op (what produced it), args (operand elements, in order), ints (integer
\* payload) and pool (operand elements whose order does not matter).
RECURSIVE Indices(_)
Indices(shape) ==
  IF shape = <<>> THEN {<<>>}
  ELSE {<<d>> \o rest : d \in 0..(Head(shape) - 1), rest \in Indices(Tail(shape))}

Elem(op, args, ints, pool) == [op |-> op, args |-> args, ints |-> ints, pool |-> pool]

Tensor(shape, elems) == [shape |-> shape, elems |-> elems]

\* The tensor fed to graph input (or held by float initializer) `name`.
SourceTensor(name, shape) ==
  Tensor(shape, [idx \in Indices(shape) |-> Elem("source", <<>>, <<name>> \o idx, {})])

\* A 1-D integer tensor holding data.
IntTensor(data) ==
  Tensor(<<Len(data)>>, [idx \in Indices(<<Len(data)>>) |-> Elem("int", <<>>, <<At(data, idx[1])>>, {})])

\* Row-major position of idx in shape, and the index at a position.
RECURSIVE Flat(_, _)
Flat(idx, shape) ==
  IF idx = <<>> THEN 0
  ELSE Flat(SubSeq(idx, 1, Len(idx) - 1), SubSeq(shape, 1, Len(shape) - 1)) * shape[Len(shape)]
       + idx[Len(idx)]

Unflat(pos, shape) == CHOOSE idx \in Indices(shape) : Flat(idx, shape) = pos

(* ------------------------- graph capability ---------------------------- *)
\* A graph g is [nodes, value_info, initializers, next_name, graph_inputs,
\* graph_outputs].  nodes is append-only; a removed node has live = FALSE.
\* A node id is its position in nodes; 0 is the null node.
NoInfo == [known |-> FALSE, dims |-> <<>>, dtype |-> "undefined"]

Info(dims, dtype) == [known |-> TRUE, dims |-> dims, dtype |-> dtype]

Put(f, k, v) == [x \in (DOMAIN f) \cup {k} |-> IF x = k THEN v ELSE f[x]]

GetValueInfo(g, v) == IF v \in DOMAIN g.value_info THEN g.value_info[v] ELSE NoInfo

LiveIds(g) == {n \in DOMAIN g.nodes : g.nodes[n].live}

GetNodeProducingOutput(g, v) ==
  IF v # 0 /\ \E n \in LiveIds(g) : v \in Range(g.nodes[n].outputs)
  THEN CHOOSE n \in LiveIds(g) : v \in Range(g.nodes[n].outputs)
  ELSE 0

\* Nodes: the live nodes, every node after the nodes producing its inputs
\* (of the nodes that may come next, the oldest comes first).
RECURSIVE NodesFrom(_, _, _)
NodesFrom(g, sorted, rest) ==
  IF rest = {} THEN sorted
  ELSE LET ready == {n \in rest : \A m \in rest :
                       Range(g.nodes[m].outputs) \cap Range(g.nodes[n].inputs) \subseteq {0}}
           first == CHOOSE n \in ready : \A m \in ready : n <= m
       IN NodesFrom(g, Append(sorted, first), rest \ {first})

Nodes(g) == NodesFrom(g, <<>>, LiveIds(g))

GetValueConsumers(g, v) ==
  [nodes |-> SortedSeq({n \in LiveIds(g) : v \in Range(g.nodes[n].inputs)}),
   comprehensive |-> v \notin g.graph_outputs]

HasValueConsumers(g, v) ==
  LET c == GetValueConsumers(g, v) IN ~(c.comprehensive /\ c.nodes = <<>>)

IsConstant(g, v) == v \in DOMAIN g.initializers

GetConstant(g, v) == g.initializers[v]

DataInt64(t) == Tup([k \in 1..t.shape[1] |-> t.elems[<<k - 1>>].ints[1]])

\* Attributes: `has` is the set of attributes that are set; the other fields
\* hold their values (meaningless while the attribute is not in `has`).
NoAttrs == [has |-> {}, perm |-> <<>>, axis |-> 0, axes |-> <<>>, keepdims |-> 0,
            noop_with_empty_axes |-> 0, channels_last |-> 0, storage_order |-> 0,
            pads |-> <<>>, starts |-> <<>>, ends |-> <<>>, start |-> 0, end |-> 0]

IsOp(node, op) == node.op = op /\ node.domain \in {"", "ai.onnx"}

\* AddNode: the new node's id is Len(g.nodes) + 1 and its outputs are fresh.
AddNode(g, op, inputs, num_outputs, domain) ==
  [g EXCEPT !.nodes = Append(@, [op |-> op, domain |-> domain, inputs |-> inputs,
                                 outputs |-> Tup([k \in 1..num_outputs |-> g.next_name + k - 1]),
                                 attrs |-> NoAttrs, live |-> TRUE]),
            !.next_name = @ + num_outputs]

LastId(g) == Len(g.nodes)

AddInitializerInt64(g, data) ==
  [g EXCEPT !.initializers = Put(@, g.next_name, IntTensor(data)),
            !.value_info = Put(@, g.next_name, Info(<<Len(data)>>, "int64")),
            !.next_name = @ + 1]

\* AddInitializerInt32.  The values stored are axes of a tensor, below its
\* rank, so the 32 bits hold them unchanged.
AddInitializerInt32(g, data) ==
  [g EXCEPT !.initializers = Put(@, g.next_name, IntTensor(data)),
            !.value_info = Put(@, g.next_name, Info(<<Len(data)>>, "int32")),
            !.next_name = @ + 1]

LastName(g) == g.next_name - 1

CopyValueInfo(g, src, dst) == [g EXCEPT !.value_info = Put(@, dst, GetValueInfo(g, src))]

\* ValueInfo::PermuteDims / UnsqueezeDims / SetShape: no-ops on an unknown shape.
PermuteDims(g, v, perm) ==
  LET vi == GetValueInfo(g, v)
  IN IF vi.known /\ Len(vi.dims) = Len(perm)
     THEN [g EXCEPT !.value_info = Put(@, v, [vi EXCEPT !.dims = Tup([k \in DOMAIN perm |-> At(vi.dims, perm[k])])])]
     ELSE g

SetShape(g, v, shape) ==
  [g EXCEPT !.value_info = Put(@, v, [GetValueInfo(g, v) EXCEPT !.known = TRUE, !.dims = shape])]

UnsqueezeDims(g, v, axes) ==
  LET vi == GetValueInfo(g, v)
  IN IF vi.known
     THEN [g EXCEPT !.value_info = Put(@, v, [vi EXCEPT !.dims = UnsqueezeShape(vi.dims, axes)])]
     ELSE g

\* Transpose: output axis d is input axis perm[d].
TransposeTensor(t, perm) ==
  LET shape == Tup([k \in DOMAIN perm |-> At(t.shape, perm[k])])
  IN Tensor(shape, [idx \in Indices(shape) |->
                      t.elems[Tup([e \in DOMAIN perm |-> idx[CHOOSE d \in DOMAIN perm : perm[d] = e - 1]])]])

ReshapeTensor(t, shape) ==
  Tensor(shape, [idx \in Indices(shape) |-> t.elems[Unflat(Flat(idx, shape), t.shape)]])

TransposeInitializer(g, v, perm) ==
  LET g1 == [g EXCEPT !.initializers[v] = TransposeTensor(@, perm)]
  IN PermuteDims(g1, v, perm)

ReshapeInitializer(g, v, shape) ==
  LET g1 == [g EXCEPT !.initializers[v] = ReshapeTensor(@, shape)]
      vi == GetValueInfo(g, v)
  IN [g1 EXCEPT !.value_info = Put(@, v, [vi EXCEPT !.known = TRUE, !.dims = shape])]

RemoveNode(g, n) == [g EXCEPT !.nodes[n].live = FALSE]

RemoveInitializer(g, v) ==
  [g EXCEPT !.initializers = [x \in (DOMAIN @) \ {v} |-> @[x]],
            !.value_info = [x \in (DOMAIN @) \ {v} |-> @[x]]]

\* MoveOutput: dst.outputs[j] takes the name of src.outputs[i], which becomes fresh.
MoveOutput(g, src, i, dst, j) ==
  LET name == At(g.nodes[src].outputs, i)
  IN [g EXCEPT !.nodes = Tup([n \in DOMAIN g.nodes |->
                            IF n = dst
                            THEN [g.nodes[n] EXCEPT !.outputs[j + 1] = name]
                            ELSE IF n = src
                            THEN [g.nodes[n] EXCEPT !.outputs[i + 1] = g.next_name]
                            ELSE g.nodes[n]]),
               !.next_name = @ + 1]

\* NodeRef::SetInput: slots up to i are created empty when missing.
SetInput(g, n, i, v) ==
  LET old == g.nodes[n].inputs
      len == Max2(Len(old), i + 1)
  IN [g EXCEPT !.nodes[n].inputs =
        Tup([k \in 1..len |-> IF k = i + 1 THEN v ELSE IF k <= Len(old) THEN old[k] ELSE 0])]

HasAttr(node, name) == name \in node.attrs.has

GetAttr(node, name) == node.attrs[name]

GetAttrDefault(node, name, default) == IF HasAttr(node, name) THEN node.attrs[name] ELSE default

SetAttribute(g, n, name, val) ==
  [g EXCEPT !.nodes[n].attrs = [@ EXCEPT ![name] = val, !.has = @ \cup {name}]]

ClearAttribute(g, n, name) ==
  [g EXCEPT !.nodes[n].attrs = [@ EXCEPT ![name] = NoAttrs[name], !.has = @ \ {name}]]

\* NodeRef::CopyAttributes: node n takes the attributes of node src.
CopyAttributes(g, n, src) == [g EXCEPT !.nodes[n].attrs = g.nodes[src].attrs]


(* --------------------------- helper utils ------------------------------ *)
\* An optional value: [some, val].
None == [some |-> FALSE, val |-> <<>>]

Some(v) == [some |-> TRUE, val |-> v]

\* ReplaceValueReferences leaving the inner loop at the first input replaced.
ReplaceFirstReference(g, ids, old_value, new_value) ==
  [g EXCEPT !.nodes =
     Tup([n \in DOMAIN @ |->
            IF n \notin Range(ids) THEN @[n]
            ELSE [@[n] EXCEPT !.inputs =
                    Tup([k \in DOMAIN @ |->
                           IF @[k] = old_value /\ \A m \in 1..(k - 1) : @[m] # old_value
                           THEN new_value ELSE @[k]])]])]

RECURSIVE ReplaceValueReferences(_, _, _, _)
ReplaceValueReferences(g, ids, old_value, new_value) ==
  IF ids = <<>> THEN g
  ELSE LET n  == Head(ids)
           g1 == [g EXCEPT !.nodes[n].inputs =
                    Tup([k \in DOMAIN @ |-> IF @[k] = old_value THEN new_value ELSE @[k]])]
       IN ReplaceValueReferences(g1, Tail(ids), old_value, new_value)

\* The node made is LastId of the result.
MakeNode1Attr(g, op_type, input, attr_name, attr_val) ==
  LET g1 == AddNode(g, op_type, <<input>>, 1, "")
  IN SetAttribute(g1, LastId(g1), attr_name, attr_val)

MakeTranspose(g, input, perm) == MakeNode1Attr(g, "Transpose", input, "perm", perm)

MakeSqueezeOrUnsqueeze(ctx, g, op_type, input, axes) ==
  IF ctx.opset < 13 THEN MakeNode1Attr(g, op_type, input, "axes", axes)
  ELSE LET g1 == AddInitializerInt64(g, axes)
       IN AddNode(g1, op_type, <<input, LastName(g1)>>, 1, "")

GetPermAttrIfValid(node) ==
  IF HasAttr(node, "perm") /\ IsValidPerm(node.attrs.perm) THEN Some(node.attrs.perm) ELSE None

ReadFromAttrOrInput(ctx, g, n, attr_name, inp_index, opset) ==
  LET node == g.nodes[n]
  IN IF ctx.opset < opset
     THEN (IF HasAttr(node, attr_name) THEN Some(GetAttr(node, attr_name)) ELSE None)
     ELSE IF inp_index >= Len(node.inputs) \/ At(node.inputs, inp_index) = 0 THEN None
     ELSE IF ~IsConstant(g, At(node.inputs, inp_index)) THEN None
     ELSE Some(DataInt64(GetConstant(g, At(node.inputs, inp_index))))

FirstOutput(g, n) == g.nodes[n].outputs[1]

(* ------------------------- handler tables ------------------------------ *)
HandlerInfo(transposible_inputs_fn, handler_fn, transposes_outputs) ==
  [transposible_inputs_fn |-> transposible_inputs_fn, handler_fn |-> handler_fn,
   transposes_outputs |-> transposes_outputs]

NoHandler == HandlerInfo("", "", FALSE)

\* A key is <<prefix, op_type>>: the string prefix \o op_type of the source.
\* Each entry is the HandlerInfo constant the source names in the comment.
handler_map(key) ==
  LET op == key[2]
      SimpleOps ==
        {"Cast", "Exp", "Identity", "LeakyRelu", "Log", "Reciprocal", "Relu", "Sigmoid", "Sqrt",
         "Tanh", "Abs", "Not", "Ceil", "Floor", "Neg", "Erf", "HardSigmoid", "Round", "IsInf",
         "IsNaN", "Selu", "Shrink", "Sign", "Softplus", "Softsign", "ThresholdedRelu", "Celu",
         "HardSwish", "Sin", "Cos", "Tan", "Sinh", "Cosh", "Asin", "Acos", "Atan", "Asinh",
         "Acosh", "Atanh"}
      BroadcastOps ==
        {"Add", "Max", "Min", "Mul", "Sub", "Div", "And", "Or", "Xor", "Mod", "PRelu", "BitShift",
         "Equal", "Greater", "Less", "GreaterOrEqual", "LessOrEqual", "Mean", "Sum", "Pow", "Where"}
      ReduceOps ==
        {"ReduceLogSum", "ReduceLogSumExp", "ReduceMax", "ReduceMean", "ReduceMin", "ReduceProd",
         "ReduceSumSquare", "ReduceL1", "ReduceL2"}
  IN IF key[1] # "" THEN NoHandler
     ELSE IF op \in SimpleOps THEN
          HandlerInfo("AllInputs", "HandleSimpleNode", TRUE)  \* simple_node_handler
     ELSE IF op \in BroadcastOps THEN
          HandlerInfo("NonScalarInputs", "HandleSimpleNodeBroadcast", TRUE)  \* broadcast_node_handler
     ELSE IF op \in {"Clip", "CastLike"} THEN
          HandlerInfo("FirstInput", "HandleSimpleNode1Inp", TRUE)  \* node_1_inp_handler
     ELSE IF op = "Transpose" THEN
          HandlerInfo("FirstInput", "HandleTranspose", FALSE)  \* transpose_handler
     ELSE IF op = "Concat" THEN
          HandlerInfo("AllInputs", "HandleConcat", TRUE)  \* concat_handler
     ELSE IF op = "Split" THEN
          HandlerInfo("FirstInput", "HandleSplit", TRUE)  \* split_handler
     ELSE IF op = "Shape" THEN
          HandlerInfo("FirstInput", "HandleShape", FALSE)  \* shape_handler
     ELSE IF op = "Pad" THEN
          HandlerInfo("FirstInput", "HandlePad", TRUE)  \* pad_handler
     ELSE IF op = "ReduceSum" THEN
          HandlerInfo("FirstInput", "HandleReduceSum", TRUE)  \* reduce_sum_handler
     ELSE IF op \in ReduceOps THEN
          HandlerInfo("FirstInput", "HandleReduceOp", TRUE)  \* reduce_op_handler
     ELSE IF op \in {"ArgMin", "ArgMax"} THEN
          HandlerInfo("FirstInput", "HandleArgMinMax", TRUE)  \* arg_min_max_handler
     ELSE IF op = "Squeeze" THEN
          HandlerInfo("FirstInput", "HandleSqueeze", TRUE)  \* squeeze_handler
     ELSE IF op = "Unsqueeze" THEN
          HandlerInfo("FirstInput", "HandleUnsqueeze", TRUE)  \* unsqueeze_handler
     ELSE IF op = "Slice" THEN
          HandlerInfo("FirstInput", "HandleSlice", TRUE)  \* slice_handler
     ELSE IF op = "Tile" THEN
          HandlerInfo("FirstInput", "HandleTile", TRUE)  \* tile_handler
     ELSE IF op \in {"Softmax", "Hardmax", "LogSoftmax"} THEN
          HandlerInfo("FirstInput", "HandleSoftHardMax", TRUE)  \* soft_hard_max_handler
     ELSE IF op \in {"QuantizeLinear", "DequantizeLinear"} THEN
          HandlerInfo("FirstInput", "HandleQuantizeDequantizeLinear", TRUE)  \* quantize_dequantize_linear_handler
     ELSE NoHandler

extended_handler_map(key) ==
  LET op == key[2]
  IN IF key[1] = ""
     THEN (IF op = "MaxPool" THEN
          HandlerInfo("FirstInput", "HandleMaxPool", TRUE)  \* max_pool_op_handler
           ELSE NoHandler)
     ELSE IF op = "QLinearReduceMean" THEN
          HandlerInfo("FirstInput", "HandleReduceOp", TRUE)  \* reduce_op_handler
     ELSE IF op \in {"QLinearSigmoid", "QLinearLeakyRelu"} THEN
          HandlerInfo("FirstInput", "HandleSimpleNode1Inp", TRUE)  \* node_1_inp_handler
     ELSE IF op = "QLinearConcat" THEN
          HandlerInfo("QLinearConcatInputs", "HandleQLinearConcat", TRUE)  \* q_linear_concat_handler
     ELSE IF op \in {"QLinearAdd", "QLinearMul"} THEN
          HandlerInfo("QLinearBinaryOpInputs", "HandleQLinearBinaryOp", TRUE)  \* q_linear_binary_op_handler
     ELSE IF op \in {"QLinearAveragePool", "QLinearGlobalAveragePool"} THEN
          HandlerInfo("FirstInput", "HandleQLinearPoolOp", TRUE)  \* q_linear_pool_op_handler
     ELSE NoHandler

GetHandler(node, allow_extended_ops) ==
  IF node.domain \notin {"", "ai.onnx", "com.microsoft"} THEN NoHandler
  ELSE LET key == IF node.domain = "com.microsoft" THEN <<"com.microsoft.", node.op>>
                  ELSE <<"", node.op>>
       IN IF handler_map(key) # NoHandler THEN handler_map(key)
          ELSE IF allow_extended_ops THEN extended_handler_map(key)
          ELSE NoHandler

(* ---------------------------- cost model ------------------------------- *)
EstimateValueRank(g, input) ==
  LET vi == GetValueInfo(g, input)
  IN IF ~vi.known THEN 5  \* the rank assumed for an unknown shape
     ELSE Cardinality({k \in DOMAIN vi.dims : vi.dims[k] # 1})

CanLikelyRemoveTranspose(g, transpose) ==
  LET consumers == GetValueConsumers(g, FirstOutput(g, transpose))
  IN /\ consumers.comprehensive
     /\ \A n \in Range(consumers.nodes) : GetHandler(g.nodes[n], TRUE) # NoHandler

EstimateTransposeValueCost(g, input, perm_inv) ==
  LET node  == GetNodeProducingOutput(g, input)
      perm2 == IF node # 0 /\ IsOp(g.nodes[node], "Transpose")
               THEN GetPermAttrIfValid(g.nodes[node]) ELSE None
  IN IF IsConstant(g, input) THEN 0
     ELSE IF perm2.some
     THEN (IF perm2.val = perm_inv /\ CanLikelyRemoveTranspose(g, node)
           THEN 0 - EstimateValueRank(g, input) ELSE 0)
     ELSE EstimateValueRank(g, input)

RECURSIVE EstimateTransposeInputsCost(_, _, _, _)
EstimateTransposeInputsCost(g, node, perm_inv, input_indices) ==
  IF input_indices = <<>> THEN 0
  ELSE EstimateTransposeValueCost(g, At(g.nodes[node].inputs, Head(input_indices)), perm_inv)
       + EstimateTransposeInputsCost(g, node, perm_inv, Tail(input_indices))


(* --------------------------- core helpers ------------------------------ *)
\* Ghost: g.pushes lists, for the call in progress, every push of a Transpose
\* through a node, with EstimateTransposeInputsCost on the graph before it.
LogPush(g, node, perm, input_indices) ==
  [g EXCEPT !.pushes = Append(@, [op |-> g.nodes[node].op,
                                  cost |-> EstimateTransposeInputsCost(g, node, perm, input_indices)])]

\* TransposeInput: replaces the ith input of node with its transposition by
\* perm.  TransposeInputCases is the function from the point where the input
\* slot is cleared, g0 being the graph at that point.
TransposeInputCases(g0, node, i, perm, perm_inv, input) ==
  LET consumers == GetValueConsumers(g0, input)
      inp_node  == GetNodeProducingOutput(g0, input)
      unused    == consumers.comprehensive /\ consumers.nodes = <<>>
      perm2     == IF inp_node # 0 /\ IsOp(g0.nodes[inp_node], "Transpose")
                   THEN GetPermAttrIfValid(g0.nodes[inp_node]) ELSE None
      existing  == {c \in Range(consumers.nodes) :
                      /\ IsOp(g0.nodes[c], "Transpose")
                      /\ GetPermAttrIfValid(g0.nodes[c]) = Some(perm)}
      \* Case 1: the Transpose(perm_inv) the other consumers of the constant read
      c1  == MakeTranspose(g0, input, perm_inv)
      c1o == FirstOutput(c1, LastId(c1))
      \* Case 2: the Transpose of the perms composed
      c2  == MakeTranspose(g0, g0.nodes[inp_node].inputs[1], ComposePerm(perm2.val, perm))
      c2o == FirstOutput(c2, LastId(c2))
      c2s == PermuteDims(CopyValueInfo(c2, input, c2o), c2o, perm)
      \* Case 4: the new Transpose(perm)
      c4  == MakeTranspose(g0, input, perm)
      c4o == FirstOutput(c4, LastId(c4))
  IN IF IsConstant(g0, input) /\ consumers.comprehensive
     THEN \* Case 1: a constant with a known list of consumers
          SetInput(TransposeInitializer(
                     IF consumers.nodes # <<>>
                     THEN ReplaceValueReferences(CopyValueInfo(c1, input, c1o),
                                                 consumers.nodes, input, c1o)
                     ELSE g0,
                     input, perm),
                   node, i, input)
     ELSE IF perm2.some
     THEN \* Case 2: the input is produced by a Transpose
          IF perm2.val = perm_inv
          THEN SetInput(IF unused THEN RemoveNode(g0, inp_node) ELSE g0,
                        node, i, g0.nodes[inp_node].inputs[1])
          ELSE SetInput(IF unused THEN RemoveNode(c2s, inp_node) ELSE c2s, node, i, c2o)
     ELSE IF existing # {}
     THEN \* Case 3: a consumer is already the wanted Transpose
          SetInput(g0, node, i, FirstOutput(g0, CHOOSE c \in existing : \A d \in existing : c <= d))
     ELSE \* Case 4
          SetInput(PermuteDims(CopyValueInfo(c4, input, c4o), c4o, perm), node, i, c4o)

\* TransposeInput removing the Transpose that produces the input whatever
\* else reads its output.
TransposeInputRemovingProducer(ctx, g, node, i, perm, perm_inv) ==
  LET inp_node == GetNodeProducingOutput(g, At(g.nodes[node].inputs, i))
      r == TransposeInputCases(SetInput(g, node, i, 0), node, i, perm, perm_inv, At(g.nodes[node].inputs, i))
  IN IF inp_node # 0 /\ IsOp(g.nodes[inp_node], "Transpose") THEN RemoveNode(r, inp_node) ELSE r

TransposeInput(ctx, g, node, i, perm, perm_inv) ==
  TransposeInputCases(SetInput(g, node, i, 0), node, i, perm, perm_inv, At(g.nodes[node].inputs, i))

RECURSIVE TransposeInputsLoop(_, _, _, _, _, _)
TransposeInputsLoop(ctx, g, node, perm, perm_inv, input_indices) ==
  IF input_indices = <<>> THEN g
  ELSE TransposeInputsLoop(ctx, TransposeInput(ctx, g, node, Head(input_indices), perm, perm_inv),
                           node, perm, perm_inv, Tail(input_indices))

TransposeInputs(ctx, g, node, perm, input_indices) ==
  TransposeInputsLoop(ctx, g, node, perm, InvertPerm(perm), input_indices)

TransposeFirstInput(ctx, g, node, perm) == TransposeInputs(ctx, g, node, perm, <<0>>)

\* TransposeOutput: [g, out], out being the transposed output, which keeps
\* the name the node's ith output had.
\* TransposeOutput permuting the dims recorded for the name that is kept.
TransposeOutputOldDims(ctx, g, node, i, perm, perm_inv) ==
  LET a == MakeTranspose(g, 0, perm)
      transpose == LastId(a)
      b == MoveOutput(a, node, i, transpose, 0)
      new_output == At(b.nodes[node].outputs, i)
      c == SetInput(b, transpose, 0, new_output)
      old_output == FirstOutput(c, transpose)
  IN [g |-> PermuteDims(CopyValueInfo(c, old_output, new_output), old_output, perm_inv),
      out |-> old_output]

TransposeOutput(ctx, g, node, i, perm, perm_inv) ==
  LET a == MakeTranspose(g, 0, perm)
      transpose == LastId(a)
      b == MoveOutput(a, node, i, transpose, 0)
      new_output == At(b.nodes[node].outputs, i)
      c == SetInput(b, transpose, 0, new_output)
      old_output == FirstOutput(c, transpose)
  IN [g |-> PermuteDims(CopyValueInfo(c, old_output, new_output), new_output, perm_inv),
      out |-> old_output]

RECURSIVE TransposeOutputsLoop(_, _, _, _, _, _)
TransposeOutputsLoop(ctx, g, node, perm, perm_inv, j) ==
  IF j >= Len(g.nodes[node].outputs) THEN g
  ELSE TransposeOutputsLoop(ctx, TransposeOutput(ctx, g, node, j, perm, perm_inv).g,
                            node, perm, perm_inv, j + 1)

TransposeOutputs(ctx, g, node, perm) ==
  IF IsIdentityPerm(perm) THEN g
  ELSE TransposeOutputsLoop(ctx, g, node, perm, InvertPerm(perm), 0)

\* Handler arguments.
HandlerArgs(transpose, node, perm, perm_inv, transposible_inputs) ==
  [transpose |-> transpose, node |-> node, perm |-> perm, perm_inv |-> perm_inv,
   transposible_inputs |-> transposible_inputs]

\* HelpHandleUnsqueeze: [g, out].
HelpHandleUnsqueeze(ctx, g, args, axes) ==
  TransposeOutput(ctx, TransposeFirstInput(ctx, g, args.node, args.perm_inv),
                  args.node, 0, UnsqueezePerm(axes, args.perm),
                  InvertPerm(UnsqueezePerm(axes, args.perm)))

\* UnsqueezeInput.  UnsqueezeInputCases is the function from the point where
\* the input slot is cleared (g0), and UnsqueezeInputPushed the end of Case 3
\* when the Transpose is pushed through the new Unsqueeze (r is what
\* HelpHandleUnsqueeze returns).
\* The end of Case 3 without the SetInput of the pushed output.
UnsqueezeInputNotWired(r, node, i) == r.g

UnsqueezeInputPushed(r, node, i) == SetInput(r.g, node, i, r.out)

UnsqueezeInputCases(ctx, g0, node, i, axes, input) ==
  LET consumers == GetValueConsumers(g0, input)
      inp_node  == GetNodeProducingOutput(g0, input)
      squeeze_axes == IF inp_node # 0 /\ IsOp(g0.nodes[inp_node], "Squeeze")
                      THEN ReadFromAttrOrInput(ctx, g0, inp_node, "axes", 1, 13) ELSE None
      \* Case 1: the Squeeze the other consumers of the constant read
      c1  == MakeSqueezeOrUnsqueeze(ctx, g0, "Squeeze", input, axes)
      c1o == FirstOutput(c1, LastId(c1))
      \* Case 2: the graph without the Squeeze
      c2  == RemoveNode(g0, inp_node)
      \* Case 3: the new Unsqueeze, and the perm of the Transpose it reads
      c3  == MakeSqueezeOrUnsqueeze(ctx, g0, "Unsqueeze", input, axes)
      unsqueeze == LastId(c3)
      c3o == FirstOutput(c3, unsqueeze)
      c3s == UnsqueezeDims(CopyValueInfo(c3, input, c3o), c3o, axes)
      perm == IF inp_node # 0 /\ IsOp(c3s.nodes[inp_node], "Transpose")
              THEN GetPermAttrIfValid(c3s.nodes[inp_node]) ELSE None
  IN IF IsConstant(g0, input) /\ consumers.comprehensive
     THEN \* Case 1: a constant with a known list of consumers
          SetInput(ReshapeInitializer(
                     IF consumers.nodes # <<>>
                     THEN ReplaceValueReferences(CopyValueInfo(c1, input, c1o),
                                                 consumers.nodes, input, c1o)
                     ELSE g0,
                     input, UnsqueezeShape(GetConstant(g0, input).shape, axes)),
                   node, i, input)
     ELSE IF squeeze_axes.some /\ squeeze_axes.val = axes
     THEN \* Case 2: the input is a Squeeze with matching axes
          SetInput(IF consumers.comprehensive /\ consumers.nodes = <<>>
                   THEN (IF ctx.opset >= 13 /\ ~HasValueConsumers(c2, g0.nodes[inp_node].inputs[2])
                         THEN RemoveInitializer(c2, g0.nodes[inp_node].inputs[2]) ELSE c2)
                   ELSE g0,
                   node, i, g0.nodes[inp_node].inputs[1])
     ELSE IF perm.some
     THEN \* Case 3, the Unsqueeze reads a Transpose: it is pushed through,
          \* with no estimate of the cost
          UnsqueezeInputPushed(
            HelpHandleUnsqueeze(ctx, LogPush(c3s, unsqueeze, perm.val, <<0>>),
                                HandlerArgs(inp_node, unsqueeze, perm.val, InvertPerm(perm.val), <<0>>),
                                axes),
            node, i)
     ELSE \* Case 3
          SetInput(c3s, node, i, c3o)

UnsqueezeInput(ctx, g, node, i, axes) ==
  UnsqueezeInputCases(ctx, SetInput(g, node, i, 0), node, i, axes, At(g.nodes[node].inputs, i))

\* NormalizeInputRanks: [ok, g].
RECURSIVE NormalizeLoop(_, _, _, _, _)
NormalizeLoop(ctx, g, node, ranks, input_indices) ==
  IF input_indices = <<>> THEN g
  ELSE NormalizeLoop(ctx,
                     IF Head(ranks) > 0
                     THEN UnsqueezeInput(ctx, g, node, Head(input_indices), Iota(Head(ranks)))
                     ELSE g,
                     node, Tail(ranks), Tail(input_indices))

NormalizeInputRanks(ctx, g, node, target_rank, input_indices) ==
  LET inputs == g.nodes[node].inputs
      shape(k) == GetValueInfo(g, At(inputs, input_indices[k]))
      bad == \E k \in DOMAIN input_indices : ~shape(k).known \/ Len(shape(k).dims) > target_rank
  IN IF bad THEN [ok |-> FALSE, g |-> g]
     ELSE [ok |-> TRUE,
           g |-> NormalizeLoop(ctx, g, node,
                               Tup([k \in DOMAIN input_indices |-> target_rank - Len(shape(k).dims)]),
                               input_indices)]


(* ---------------------- transposible inputs ---------------------------- *)
AllInputs(g, node) == {Iota(Len(g.nodes[node].inputs))}

FirstInput(g, node) == {<<0>>}

\* NonScalarInputs reads Shape()->size() of every input without testing that
\* the shape is known: on an unknown shape the read is undefined, and the
\* input may or may not be listed.
NonScalarInputs(g, node) ==
  LET inputs == g.nodes[node].inputs
      vi(k)  == GetValueInfo(g, inputs[k])
      keeps  == {keep \in [DOMAIN inputs -> BOOLEAN] :
                   \A k \in DOMAIN inputs : vi(k).known => (keep[k] <=> Len(vi(k).dims) # 0)}
  IN {SelectIdx(Iota(Len(inputs)), keep, 1) : keep \in keeps}

QLinearConcatInputs(g, node) ==
  {SelectIdx(Iota(Len(g.nodes[node].inputs)),
             Tup([k \in DOMAIN g.nodes[node].inputs |-> k >= 3 /\ (k - 3) % 3 = 0]), 1)}

QLinearBinaryOpInputs(g, node) == {<<0, 3>>}

\* The index vectors transposible_inputs_fn may return.
TransposibleInputs(fn, g, node) ==
  CASE fn = "AllInputs" -> AllInputs(g, node)
    [] fn = "FirstInput" -> FirstInput(g, node)
    [] fn = "NonScalarInputs" -> NonScalarInputs(g, node)
    [] fn = "QLinearConcatInputs" -> QLinearConcatInputs(g, node)
    [] fn = "QLinearBinaryOpInputs" -> QLinearBinaryOpInputs(g, node)

(* ----------------------------- handlers -------------------------------- *)
\* A handler yields [g, changed]: the graph it leaves and the bool it returns.
Res(g, changed) == [g |-> g, changed |-> changed]

HandleSimpleNodeBase(ctx, g, args, broadcast_inputs) ==
  LET rank == Len(args.perm)
      Rest(norm) ==
        IF ~norm.ok THEN Res(norm.g, FALSE)
        ELSE Res(TransposeOutputs(ctx,
                   TransposeInputs(ctx, norm.g, args.node, args.perm_inv, args.transposible_inputs),
                   args.node, args.perm), TRUE)
  IN Rest(IF broadcast_inputs
          THEN NormalizeInputRanks(ctx, g, args.node, rank, args.transposible_inputs)
          ELSE [ok |-> TRUE, g |-> g])

HandleSimpleNode(ctx, g, args) == HandleSimpleNodeBase(ctx, g, args, FALSE)

HandleSimpleNodeBroadcast(ctx, g, args) == HandleSimpleNodeBase(ctx, g, args, TRUE)

HandleSimpleNode1Inp(ctx, g, args) == HandleSimpleNodeBase(ctx, g, args, FALSE)

\* HandleSimpleNodeWithAxis that looks for the axis after HandleSimpleNodeBase ran.
AxisCheckedLate(ctx, g, args, has_default, default_axis) ==
  LET node == g.nodes[args.node]
      set  == HasAttr(node, "axis")
      nv   == NormalizeAndValidateAxis(IF set THEN node.attrs.axis ELSE default_axis, Len(args.perm))
      Rest(r) == IF (~set /\ ~has_default) \/ ~nv.ok THEN Res(r.g, FALSE)
                 ELSE Res(SetAttribute(r.g, args.node, "axis", At(args.perm, nv.axis)), TRUE)
  IN Rest(HandleSimpleNodeBase(ctx, g, args, FALSE))

HandleSimpleNodeWithAxis(ctx, g, args, has_default, default_axis) ==
  LET rank == Len(args.perm)
      node == g.nodes[args.node]
      set  == HasAttr(node, "axis")
      nv   == NormalizeAndValidateAxis(IF set THEN node.attrs.axis ELSE default_axis, rank)
  IN IF ~set /\ ~has_default THEN Res(g, FALSE)
     ELSE IF ~nv.ok THEN Res(g, FALSE)
     ELSE LET Rest(r) == IF ~r.changed THEN Res(r.g, FALSE)
                         ELSE Res(SetAttribute(r.g, args.node, "axis", At(args.perm, nv.axis)), TRUE)
          IN Rest(HandleSimpleNodeBase(ctx, g, args, FALSE))

HandleSplit(ctx, g, args) == HandleSimpleNodeWithAxis(ctx, g, args, TRUE, 0)

HandleConcat(ctx, g, args) == HandleSimpleNodeWithAxis(ctx, g, args, FALSE, 0)

HandleQLinearConcat(ctx, g, args) == HandleSimpleNodeWithAxis(ctx, g, args, FALSE, 0)

HandleQLinearBinaryOp(ctx, g, args) == HandleSimpleNodeBase(ctx, g, args, TRUE)

HandleSoftHardMax(ctx, g, args) ==
  IF ctx.opset >= 13 THEN HandleSimpleNodeWithAxis(ctx, g, args, TRUE, -1)
  ELSE LET rank == Len(args.perm)
           nv   == NormalizeAndValidateAxis(GetAttrDefault(g.nodes[args.node], "axis", 1), rank)
       IN IF ~nv.ok THEN Res(g, FALSE)
          ELSE IF \E i \in 0..(rank - 1) : (i < nv.axis) # (At(args.perm, i) < nv.axis)
          THEN Res(g, FALSE)
          ELSE HandleSimpleNode1Inp(ctx, g, args)

HandleReduceOp(ctx, g, args) ==
  LET node     == g.nodes[args.node]
      keepdims == GetAttrDefault(node, "keepdims", 1)
  IN IF ~HasAttr(node, "axes")
     THEN LET out_perm == IF keepdims = 0 THEN <<>> ELSE args.perm
              g1 == TransposeFirstInput(ctx, g, args.node, args.perm_inv)
          IN Res(TransposeOutputs(ctx, g1, args.node, out_perm), TRUE)
     ELSE LET nv == NormalizeAndValidateAxes(node.attrs.axes, Len(args.perm))
          IN IF ~nv.ok THEN Res(g, FALSE)
             ELSE LET new_axes == SortedAxesForTransposedInput(nv.axes, args.perm)
                      g1 == SetAttribute(g, args.node, "axes", new_axes)
                      out_perm == IF keepdims = 0 THEN SqueezePerm(new_axes, args.perm) ELSE args.perm
                      g2 == TransposeFirstInput(ctx, g1, args.node, args.perm_inv)
                  IN Res(TransposeOutputs(ctx, g2, args.node, out_perm), TRUE)

HandleReduceSum(ctx, g, args) ==
  IF ctx.opset < 13 THEN HandleReduceOp(ctx, g, args)
  ELSE
  LET node     == g.nodes[args.node]
      keepdims == GetAttrDefault(node, "keepdims", 1) # 0
      inputs   == node.inputs
      absent   == Len(inputs) < 2 \/ inputs[2] = 0
      is_const == ~absent /\ IsConstant(g, inputs[2])
      empty_axes == absent \/ (is_const /\ DataInt64(GetConstant(g, inputs[2])) = <<>>)
  IN IF empty_axes
     THEN LET noop == GetAttrDefault(node, "noop_with_empty_axes", 0) # 0
              g1 == TransposeFirstInput(ctx, g, args.node, args.perm_inv)
          IN Res(IF noop \/ keepdims THEN TransposeOutputs(ctx, g1, args.node, args.perm) ELSE g1, TRUE)
     ELSE IF ~is_const THEN Res(g, FALSE)
     ELSE LET nv == NormalizeAndValidateAxes(DataInt64(GetConstant(g, inputs[2])), Len(args.perm))
          IN IF ~nv.ok THEN Res(g, FALSE)
             ELSE LET new_axes == SortedAxesForTransposedInput(nv.axes, args.perm)
                      g1 == AddInitializerInt64(g, new_axes)
                      g2 == SetInput(g1, args.node, 1, LastName(g1))
                      g3 == IF ~HasValueConsumers(g2, inputs[2])
                            THEN RemoveInitializer(g2, inputs[2]) ELSE g2
                      g4 == TransposeFirstInput(ctx, g3, args.node, args.perm_inv)
                  IN Res(TransposeOutputs(ctx, g4, args.node,
                                          IF keepdims THEN args.perm
                                          ELSE SqueezePerm(new_axes, args.perm)), TRUE)

HandleSqueeze(ctx, g, args) ==
  LET axes == ReadFromAttrOrInput(ctx, g, args.node, "axes", 1, 13)
      nv   == NormalizeAndValidateAxes(axes.val, Len(args.perm))
  IN IF ~axes.some THEN Res(g, FALSE)
     ELSE IF ~nv.ok THEN Res(g, FALSE)
     ELSE LET new_axes == SortedAxesForTransposedInput(nv.axes, args.perm)
              axes_inp == g.nodes[args.node].inputs[2]
              g1 == IF ctx.opset < 13 THEN SetAttribute(g, args.node, "axes", new_axes)
                    ELSE LET a == AddInitializerInt64(g, new_axes)
                             b == SetInput(a, args.node, 1, LastName(a))
                         IN IF ~HasValueConsumers(b, axes_inp)
                            THEN RemoveInitializer(b, axes_inp) ELSE b
              g2 == TransposeFirstInput(ctx, g1, args.node, args.perm_inv)
          IN Res(TransposeOutputs(ctx, g2, args.node, SqueezePerm(new_axes, args.perm)), TRUE)

HandleUnsqueeze(ctx, g, args) ==
  LET axes == ReadFromAttrOrInput(ctx, g, args.node, "axes", 1, 13)
      nv   == NormalizeAndValidateAxes(axes.val, Len(args.perm) + Len(axes.val))
  IN IF ~axes.some THEN Res(g, FALSE)
     ELSE IF ~nv.ok THEN Res(g, FALSE)
     ELSE Res(HelpHandleUnsqueeze(ctx, g, args, nv.axes).g, TRUE)

HandleQuantizeDequantizeLinear(ctx, g, args) ==
  LET rank == Len(args.perm)
      node == g.nodes[args.node]
      inp_shape == GetValueInfo(g, node.inputs[2])
      scalar_params == inp_shape.known /\ Len(inp_shape.dims) = 0
      nv == NormalizeAndValidateAxis(GetAttrDefault(node, "axis", 1), rank)
      update == ctx.opset >= 13 /\ ~scalar_params
  IN IF update /\ ~nv.ok THEN Res(g, FALSE)
     ELSE LET g1 == IF update THEN SetAttribute(g, args.node, "axis", At(args.perm, nv.axis)) ELSE g
              g2 == TransposeFirstInput(ctx, g1, args.node, args.perm_inv)
          IN Res(TransposeOutputs(ctx, g2, args.node, args.perm), TRUE)

HandleArgMinMax(ctx, g, args) ==
  LET rank == Len(args.perm)
      node == g.nodes[args.node]
      keepdims == GetAttrDefault(node, "keepdims", 1)
      nv == NormalizeAndValidateAxis(GetAttrDefault(node, "axis", 0), rank)
  IN IF ~nv.ok THEN Res(g, FALSE)
     ELSE LET new_axis == At(args.perm, nv.axis)
              g1 == SetAttribute(g, args.node, "axis", new_axis)
              g2 == TransposeInputs(ctx, g1, args.node, args.perm_inv, args.transposible_inputs)
          IN Res(TransposeOutputs(ctx, g2, args.node,
                                  IF keepdims # 0 THEN args.perm
                                  ELSE SqueezePerm(<<new_axis>>, args.perm)), TRUE)

\* HandleShape taking a negative start or end as it is, to be clamped to 0.
HandleShapeNoWrap(ctx, g, args) ==
  LET rank  == Len(args.perm)
      node  == g.nodes[args.node]
      a     == TransposeInputs(ctx, g, args.node, args.perm_inv, args.transposible_inputs)
      start == GetAttrDefault(node, "start", 0)
      end   == GetAttrDefault(node, "end", rank)
      clamp(v) == IF v < 0 THEN 0 ELSE IF v > rank THEN rank ELSE v
      start_idx == clamp(start)
      end_idx   == clamp(end)
      new_perm  == IF ctx.opset >= 15 THEN SubSeq(args.perm, start_idx + 1, end_idx) ELSE args.perm
      b == IF ctx.opset >= 15
           THEN ClearAttribute(ClearAttribute(a, args.node, "start"), args.node, "end") ELSE a
      \* new_output is the node's output once the Gather has taken the old one.
      Finish(f, new_output) ==
        IF Len(new_perm) # rank THEN SetShape(f, new_output, <<rank>>) ELSE f
      Wire(e, gather, new_output) ==
        Finish(CopyValueInfo(SetInput(e, gather, 0, new_output), FirstOutput(e, gather), new_output),
               new_output)
      Move(e, gather) == Wire(e, gather, FirstOutput(e, args.node))
      Gather(d) ==
        Move(MoveOutput(SetAttribute(d, LastId(d), "axis", 0), args.node, 0, LastId(d), 0), LastId(d))
      Const(c) == Gather(AddNode(c, "Gather", <<0, LastName(c)>>, 1, ""))
  IN Res(Const(AddInitializerInt64(b, new_perm)), TRUE)

HandleShape(ctx, g, args) ==
  LET rank  == Len(args.perm)
      node  == g.nodes[args.node]
      a     == TransposeInputs(ctx, g, args.node, args.perm_inv, args.transposible_inputs)
      start == GetAttrDefault(node, "start", 0)
      end   == GetAttrDefault(node, "end", rank)
      clamp(v) == IF v < 0 THEN 0 ELSE IF v > rank THEN rank ELSE v
      start_idx == clamp(IF start < 0 THEN start + rank ELSE start)
      end_idx   == clamp(IF end < 0 THEN end + rank ELSE end)
      new_perm  == IF ctx.opset >= 15 THEN SubSeq(args.perm, start_idx + 1, end_idx) ELSE args.perm
      b == IF ctx.opset >= 15
           THEN ClearAttribute(ClearAttribute(a, args.node, "start"), args.node, "end") ELSE a
      \* new_output is the node's output once the Gather has taken the old one.
      Finish(f, new_output) ==
        IF Len(new_perm) # rank THEN SetShape(f, new_output, <<rank>>) ELSE f
      Wire(e, gather, new_output) ==
        Finish(CopyValueInfo(SetInput(e, gather, 0, new_output), FirstOutput(e, gather), new_output),
               new_output)
      Move(e, gather) == Wire(e, gather, FirstOutput(e, args.node))
      Gather(d) ==
        Move(MoveOutput(SetAttribute(d, LastId(d), "axis", 0), args.node, 0, LastId(d), 0), LastId(d))
      Const(c) == Gather(AddNode(c, "Gather", <<0, LastName(c)>>, 1, ""))
  IN Res(Const(AddInitializerInt64(b, new_perm)), TRUE)

\* PermutePads reordering the starts and leaving the ends where they are.
PermutePadsStartsOnly(pads, perm) ==
  Tup([k \in DOMAIN perm |-> At(pads, perm[k])])
    \o Tup([k \in DOMAIN perm |-> At(pads, k - 1 + Len(perm))])

PermutePads(pads, perm) ==
  Tup([k \in DOMAIN perm |-> At(pads, perm[k])])
    \o Tup([k \in DOMAIN perm |-> At(pads, perm[k] + Len(perm))])

HandlePad(ctx, g, args) ==
  LET rank == Len(args.perm)
      node == g.nodes[args.node]
      a == IF ctx.opset < 11
           THEN SetAttribute(g, args.node, "pads", PermutePads(node.attrs.pads, args.perm_inv))
           ELSE g
      pads_input == node.inputs[2]
      Rest(b) ==
        IF ctx.opset < 11 THEN b
        ELSE IF IsConstant(b, pads_input)
        THEN \* Case 1: pads is a constant
             LET c == AddInitializerInt64(b, PermutePads(DataInt64(GetConstant(b, pads_input)),
                                                         args.perm_inv))
                 d == SetInput(c, args.node, 1, LastName(c))
             IN IF ~HasValueConsumers(d, pads_input) THEN RemoveInitializer(d, pads_input) ELSE d
        ELSE \* Case 2: pads is computed
             LET c == AddInitializerInt64(b, args.perm_inv
                                             \o Tup([k \in DOMAIN args.perm_inv |-> args.perm_inv[k] + rank]))
                 d == AddNode(c, "Gather", <<pads_input, LastName(c)>>, 1, "")
                 gather_output == FirstOutput(d, LastId(d))
                 e == SetAttribute(CopyValueInfo(d, pads_input, gather_output), LastId(d), "axis", 0)
             IN SetInput(e, args.node, 1, gather_output)
  IN IF ctx.opset < 11 /\ ~HasAttr(node, "pads") THEN Res(g, FALSE)
     ELSE Res(Rest(TransposeOutputs(ctx, TransposeFirstInput(ctx, a, args.node, args.perm_inv),
                                    args.node, args.perm)), TRUE)

AddIntInitializerMatchingDtype(g, values, dtype) ==
  IF dtype = "int32" THEN AddInitializerInt32(g, values) ELSE AddInitializerInt64(g, values)

\* TensorIntData: the data of an int32 tensor widened, or DataInt64.
TensorIntData(tensor, dtype) == DataInt64(tensor)

\* HandleSlice.  The element type of an initializer is the one of its value
\* info.  At opset < 10 the handler reads starts->size() without testing that
\* the attribute is set; the graphs here set it.
HandleSlice(ctx, g, args) ==
  LET rank   == Len(args.perm)
      node   == g.nodes[args.node]
      inputs == node.inputs
      No     == [ok |-> FALSE, g |-> g]
      Yes(g1) == [ok |-> TRUE, g |-> g1]
      edited ==
        IF ctx.opset < 10
        THEN LET nv == NormalizeAndValidateAxes(IF HasAttr(node, "axes") THEN node.attrs.axes
                                                ELSE Iota(Len(node.attrs.starts)), rank)
             IN IF ~nv.ok THEN No
                ELSE Yes(SetAttribute(g, args.node, "axes", AxesForTransposedInput(nv.axes, args.perm)))
        ELSE IF Len(inputs) < 4 \/ inputs[4] = 0
        THEN \* Case 1: axes is missing
             LET starts == GetValueInfo(g, inputs[2])
             IN IF ~starts.known \/ Len(starts.dims) # 1 \/ starts.dims[1] < 0 THEN No
                ELSE LET a == AddIntInitializerMatchingDtype(
                                g, Tup([k \in 1..starts.dims[1] |-> args.perm[k]]), starts.dtype)
                     IN Yes(SetInput(a, args.node, 3, LastName(a)))
        ELSE \* Case 2: axes input provided
             LET axes_inp  == inputs[4]
                 int_dtype == GetValueInfo(g, axes_inp).dtype
                 nv == NormalizeAndValidateAxes(TensorIntData(GetConstant(g, axes_inp), int_dtype), rank)
             IN IF ~IsConstant(g, axes_inp) THEN No
                ELSE IF ~nv.ok THEN No
                ELSE LET a == AddIntInitializerMatchingDtype(
                                g, AxesForTransposedInput(nv.axes, args.perm), int_dtype)
                         b == SetInput(a, args.node, 3, LastName(a))
                     IN Yes(IF ~HasValueConsumers(b, axes_inp) THEN RemoveInitializer(b, axes_inp) ELSE b)
  IN IF ~edited.ok THEN Res(g, FALSE)
     ELSE Res(TransposeOutputs(ctx, TransposeFirstInput(ctx, edited.g, args.node, args.perm_inv),
                               args.node, args.perm), TRUE)

HandleTile(ctx, g, args) ==
  LET repeats_inp == g.nodes[args.node].inputs[2]
      a == IF IsConstant(g, repeats_inp)
           THEN \* Case 1: repeats is constant
                LET repeats == DataInt64(GetConstant(g, repeats_inp))
                    c == AddInitializerInt64(g, Tup([k \in DOMAIN args.perm_inv |->
                                                      At(repeats, args.perm_inv[k])]))
                    d == SetInput(c, args.node, 1, LastName(c))
                IN IF ~HasValueConsumers(d, repeats_inp) THEN RemoveInitializer(d, repeats_inp) ELSE d
           ELSE \* Case 2: repeats is computed
                LET c == AddInitializerInt64(g, args.perm_inv)
                    d == AddNode(c, "Gather", <<repeats_inp, LastName(c)>>, 1, "")
                    gather_output == FirstOutput(d, LastId(d))
                IN SetInput(CopyValueInfo(d, repeats_inp, gather_output), args.node, 1, gather_output)
  IN Res(TransposeOutputs(ctx, TransposeFirstInput(ctx, a, args.node, args.perm_inv),
                          args.node, args.perm), TRUE)

HandleQLinearPoolOp(ctx, g, args) ==
  LET channels_last == GetAttrDefault(g.nodes[args.node], "channels_last", 1)
      rank == Len(args.perm)
      p    == ChannelLastToFirstPerm(rank)
  IN IF rank < 2 THEN Res(g, FALSE)
     ELSE IF (channels_last = 0 /\ args.perm = p) \/ (channels_last # 0 /\ args.perm_inv = p)
     THEN LET g1 == SetAttribute(g, args.node, "channels_last", 1 - channels_last)
              g2 == TransposeFirstInput(ctx, g1, args.node, args.perm_inv)
          IN Res(TransposeOutputs(ctx, g2, args.node, args.perm), TRUE)
     ELSE Res(g, FALSE)

HandleMaxPool(ctx, g, args) ==
  LET outputs == g.nodes[args.node].outputs
      rank    == Len(args.perm)
  IN IF Len(outputs) = 2 /\ outputs[2] # 0 THEN Res(g, FALSE)
     ELSE IF GetValueInfo(g, outputs[1]).dtype \notin {"uint8", "int8"} THEN Res(g, FALSE)
     ELSE IF args.perm # ChannelLastToFirstPerm(rank) THEN Res(g, FALSE)
     ELSE LET a == AddNode(g, "NhwcMaxPool", g.nodes[args.node].inputs, 1, "com.microsoft")
              new_node == LastId(a)
              b == ClearAttribute(CopyAttributes(a, new_node, args.node), new_node, "storage_order")
              c == RemoveNode(MoveOutput(b, args.node, 0, new_node, 0), args.node)
              d == TransposeFirstInput(ctx, c, new_node, args.perm_inv)
          IN Res(TransposeOutputs(ctx, d, new_node, args.perm), TRUE)

\* Position (0-based) of value v among the outputs of node n.
OutputIndex(g, n, v) == (CHOOSE k \in DOMAIN g.nodes[n].outputs : g.nodes[n].outputs[k] = v) - 1

\* Case 1 of HandleTranspose with the Identity node on every path.
CancelWithIdentity(g, args) ==
  LET b == AddNode(g, "Identity", <<0>>, 1, "")
      c == MoveOutput(b, args.node, 0, LastId(b), 0)
  IN RemoveNode(SetInput(c, LastId(b), 0, g.nodes[args.transpose].inputs[1]), args.node)

\* Case 1 of HandleTranspose, the permutations cancel: the graph once the
\* 2nd transpose is removed.
CancelTransposes(g, args) ==
  LET transpose_input == g.nodes[args.transpose].inputs[1]
      node_output     == FirstOutput(g, args.node)
      consumers       == GetValueConsumers(g, node_output)
      transpose_inp_consumers == GetValueConsumers(g, transpose_input)
      transpose_inp_node      == GetNodeProducingOutput(g, transpose_input)
      a == IF consumers.comprehensive
           THEN ReplaceValueReferences(g, consumers.nodes, node_output, transpose_input)
           ELSE IF transpose_inp_node # 0 /\ transpose_inp_consumers.comprehensive
           THEN LET b == SetInput(g, args.node, 0, 0)
                    c == ReplaceValueReferences(b, transpose_inp_consumers.nodes,
                                                transpose_input, node_output)
                IN MoveOutput(c, args.node, 0, transpose_inp_node,
                              OutputIndex(g, transpose_inp_node, transpose_input))
           ELSE LET b == AddNode(g, "Identity", <<0>>, 1, "")
                    identity == LastId(b)
                    c == MoveOutput(b, args.node, 0, identity, 0)
                IN SetInput(c, identity, 0, transpose_input)
  IN RemoveNode(a, args.node)

HandleTranspose(ctx, g, args) ==
  LET node_perm == GetPermAttrIfValid(g.nodes[args.node])
      g1 == IF args.perm_inv = node_perm.val
            THEN \* Case 1: the permutations cancel
                 CancelTransposes(g, args)
            ELSE \* Case 2: the permutations compose
                 SetInput(SetAttribute(g, args.node, "perm", ComposePerm(args.perm, node_perm.val)),
                          args.node, 0, g.nodes[args.transpose].inputs[1])
  IN IF ~node_perm.some THEN Res(g, FALSE)
     ELSE Res(IF ~HasValueConsumers(g1, FirstOutput(g1, args.transpose))
              THEN RemoveNode(g1, args.transpose) ELSE g1, TRUE)


(* ----------------------- operator semantics ---------------------------- *)
\* What each operator computes, on symbolic elements.  An axis attribute
\* shows in the result only through the operands it selects.
RemoveAt(idx, A) == SelectIdx(idx, Tup([k \in DOMAIN idx |-> (k - 1) \notin A]), 1)

InsertZeros(idx, A, new_rank) ==
  Tup([k \in 1..new_rank |-> IF (k - 1) \in A THEN 0 ELSE At(idx, (k - 1) - CountBelow(A, k - 1))])

NormAxis(axis, rank) == IF axis < 0 THEN axis + rank ELSE axis

RECURSIVE SumDims(_, _)
SumDims(ts, axis) == IF ts = <<>> THEN 0 ELSE At(Head(ts).shape, axis) + SumDims(Tail(ts), axis)

\* The operand of a Concat holding position d of the concatenated axis.
RECURSIVE ConcatPick(_, _, _, _)
ConcatPick(ts, axis, idx, d) ==
  IF d < At(Head(ts).shape, axis) THEN Head(ts).elems[[idx EXCEPT ![axis + 1] = d]]
  ELSE ConcatPick(Tail(ts), axis, idx, d - At(Head(ts).shape, axis))

\* The output tensors of a node given its input tensors (absent optional
\* inputs are left out of ins): what each operator computes, on symbolic
\* elements.
ApplyOp(opset, node, ins) ==
  LET MapTensor(op, t) ==
        Tensor(t.shape, [idx \in Indices(t.shape) |-> Elem(op, <<t.elems[idx]>>, <<>>, {})])
      \* Index into operand t of the broadcast result index idx (shapes
      \* right-aligned): 0 along a dimension of 1 and idx along a dimension of the
      \* result, written as a remainder so that operands whose shapes do not
      \* broadcast have a value as well.
      BroadcastIndex(idx, t) ==
        LET off == Len(idx) - Len(t.shape)
        IN Tup([k \in DOMAIN t.shape |-> idx[k + off] % t.shape[k]])
      BroadcastShape(a, b) ==
        LET r == Max2(Len(a), Len(b))
            da(k) == IF k > r - Len(a) THEN a[k - (r - Len(a))] ELSE 1
            db(k) == IF k > r - Len(b) THEN b[k - (r - Len(b))] ELSE 1
        IN Tup([k \in 1..r |-> Max2(da(k), db(k))])
      BinaryTensor(op, a, b) ==
        LET shape == BroadcastShape(a.shape, b.shape)
        IN Tensor(shape, [idx \in Indices(shape) |->
                            Elem(op, <<a.elems[BroadcastIndex(idx, a)], b.elems[BroadcastIndex(idx, b)]>>,
                                 <<>>, {})])
      UnsqueezeTensor(t, axes) ==
        LET shape == UnsqueezeShape(t.shape, axes)
        IN Tensor(shape, [idx \in Indices(shape) |-> t.elems[RemoveAt(idx, Range(axes))]])
      SqueezeTensor(t, axes) ==
        LET A     == Range(axes)
            shape == RemoveAt(t.shape, A)
        IN Tensor(shape, [idx \in Indices(shape) |-> t.elems[InsertZeros(idx, A, Len(t.shape))]])
      \* Elements of t that agree with idx outside the axes in A.
      Along(t, idx, A) ==
        {t.elems[j] : j \in {j \in Indices(t.shape) : \A k \in DOMAIN j : (k - 1) \in A \/ j[k] = idx[k]}}
      ReduceTensor(op, t, A, keepdims) ==
        LET rank  == Len(t.shape)
            shape == IF keepdims THEN Tup([k \in 1..rank |-> IF (k - 1) \in A THEN 1 ELSE t.shape[k]])
                     ELSE RemoveAt(t.shape, A)
            full(idx) == IF keepdims THEN idx ELSE InsertZeros(idx, A, rank)
        IN Tensor(shape, [idx \in Indices(shape) |-> Elem(op, <<>>, <<>>, Along(t, full(idx), A))])
      \* Softmax and LogSoftmax of an element depend on the element and on the
      \* elements of its row (the positions that differ from it in the axes A
      \* only).  Hardmax is 1 at the first maximum of the row in row-major
      \* order: the element has to exceed every element before it and to reach
      \* every element after it, so each row element is tagged with its side.
      FirstAlong(t, idx, A) ==
        {[elem |-> t.elems[j], earlier |-> Flat(j, t.shape) < Flat(idx, t.shape)] :
           j \in {j \in Indices(t.shape) : j # idx /\ \A k \in DOMAIN j : (k - 1) \in A \/ j[k] = idx[k]}}
      SoftmaxTensor(op, t, A) ==
        Tensor(t.shape, [idx \in Indices(t.shape) |->
                           Elem(op, <<t.elems[idx]>>, <<>>,
                                IF op = "Hardmax" THEN FirstAlong(t, idx, A) ELSE Along(t, idx, A))])
      ArgTensor(op, t, axis, keepdims) ==
        LET rank  == Len(t.shape)
            shape == IF keepdims THEN Tup([k \in 1..rank |-> IF k - 1 = axis THEN 1 ELSE t.shape[k]])
                     ELSE RemoveAt(t.shape, {axis})
            full(idx) == IF keepdims THEN idx ELSE InsertZeros(idx, {axis}, rank)
        IN Tensor(shape, [idx \in Indices(shape) |->
                            Elem(op, Tup([d \in 1..At(t.shape, axis) |->
                                        t.elems[[full(idx) EXCEPT ![axis + 1] = d - 1]]]), <<>>, {})])
      \* Per-axis (1-D scale) or per-tensor (0-D scale) quantization.
      QuantTensor(op, t, scale, axis) ==
        Tensor(t.shape, [idx \in Indices(t.shape) |->
                           Elem(op, <<t.elems[idx],
                                      scale.elems[IF scale.shape = <<>> THEN <<>> ELSE <<At(idx, axis)>>]>>,
                                <<>>, {})])
      \* Pooling over all the spatial axes (a window as large as the input):
      \* the axes between batch and channel, channel last or first.
      PoolTensor(op, t, channels_last) ==
        LET r == Len(t.shape)
            A == IF channels_last THEN 1..(r - 2) ELSE 2..(r - 1)
            shape == Tup([k \in 1..r |-> IF (k - 1) \in A THEN 1 ELSE t.shape[k]])
        IN Tensor(shape, [idx \in Indices(shape) |-> Elem(op, <<>>, <<>>, Along(t, idx, A))])
      \* Shape, restricted to [start, end) from opset 15 on.
      ShapeTensor(t) ==
        LET r == Len(t.shape)
            clamp(v) == IF v < 0 THEN 0 ELSE IF v > r THEN r ELSE v
            from == clamp(NormAxis(GetAttrDefault(node, "start", 0), r))
            to   == clamp(NormAxis(GetAttrDefault(node, "end", r), r))
        IN IntTensor(IF opset >= 15 THEN SubSeq(t.shape, from + 1, to) ELSE t.shape)
      \* Gather along axis 0 of a 1-D tensor.
      GatherTensor(t, indices) ==
        Tensor(<<Len(indices)>>, [idx \in Indices(<<Len(indices)>>) |-> t.elems[<<At(indices, idx[1])>>]])
      \* Constant-mode Pad: pads holds the starts, then the ends.
      PadTensor(t, pads) ==
        LET r     == Len(t.shape)
            shape == Tup([k \in 1..r |-> t.shape[k] + pads[k] + pads[k + r]])
            src(idx) == Tup([k \in 1..r |-> idx[k] - pads[k]])
        IN Tensor(shape, [idx \in Indices(shape) |->
                            IF src(idx) \in Indices(t.shape) THEN t.elems[src(idx)]
                            ELSE Elem("pad", <<>>, <<>>, {})])
      TileTensor(t, repeats) ==
        LET shape == Tup([k \in DOMAIN t.shape |-> t.shape[k] * repeats[k]])
        IN Tensor(shape, [idx \in Indices(shape) |->
                            t.elems[Tup([k \in DOMAIN idx |-> idx[k] % t.shape[k]])]])
      \* Slice with unit steps: positions [starts[m], ends[m]) of axis axs[m].
      SliceTensor(t, starts, ends, axs) ==
        LET r      == Len(t.shape)
            pos(d) == {m \in DOMAIN axs : NormAxis(axs[m], r) = d}
            lo(d)  == IF pos(d) = {} THEN 0 ELSE starts[CHOOSE m \in pos(d) : TRUE]
            hi(d)  == IF pos(d) = {} THEN At(t.shape, d) ELSE ends[CHOOSE m \in pos(d) : TRUE]
            shape  == Tup([k \in 1..r |-> hi(k - 1) - lo(k - 1)])
        IN Tensor(shape, [idx \in Indices(shape) |-> t.elems[Tup([k \in 1..r |-> idx[k] + lo(k - 1)])]])
      ConcatTensor(ts, axis) ==
        LET shape == [Head(ts).shape EXCEPT ![axis + 1] = SumDims(ts, axis)]
        IN Tensor(shape, [idx \in Indices(shape) |-> ConcatPick(ts, axis, idx, At(idx, axis))])
      \* Split into n equal parts along axis.
      SplitTensors(t, axis, n) ==
        LET part  == At(t.shape, axis) \div n
            shape == [t.shape EXCEPT ![axis + 1] = part]
        IN Tup([k \in 1..n |-> Tensor(shape, [idx \in Indices(shape) |->
                                            t.elems[[idx EXCEPT ![axis + 1] = @ + (k - 1) * part]]])])
      \* The axes of a node that reads them from its attribute (opset < `since`)
      \* or its second input.
      AxesOf(since) ==
        IF opset < since
        THEN (IF HasAttr(node, "axes") THEN Some(node.attrs.axes) ELSE None)
        ELSE IF Len(ins) >= 2 THEN Some(DataInt64(ins[2])) ELSE None
      op   == node.op
      x    == ins[1]
      rank == Len(x.shape)
      all  == 0..(rank - 1)
      axes(since) == AxesOf(since)
      norm(a) == {NormAxis(a[k], rank) : k \in DOMAIN a}
  IN IF op = "Transpose" THEN <<TransposeTensor(x, node.attrs.perm)>>
     ELSE IF op = "Identity" THEN <<x>>
     ELSE IF handler_map(<<"", op>>).handler_fn = "HandleSimpleNodeBroadcast"
          THEN <<IF Len(ins) = 2 THEN BinaryTensor(op, x, ins[2])
                 ELSE BinaryTensor(op, BinaryTensor(op, x, ins[2]), ins[3])>>
     ELSE IF op = "Unsqueeze"
          THEN <<UnsqueezeTensor(x, Tup([k \in DOMAIN axes(13).val |->
                                       NormAxis(axes(13).val[k], rank + Len(axes(13).val))]))>>
     ELSE IF op = "Squeeze" THEN <<SqueezeTensor(x, SortedSeq(norm(axes(13).val)))>>
     ELSE IF op \in {"QLinearAdd", "QLinearMul"} THEN <<BinaryTensor(op, x, ins[4])>>
     ELSE IF op = "QLinearConcat"
          THEN <<MapTensor(op, ConcatTensor(<<ins[3], ins[6]>>, NormAxis(node.attrs.axis, Len(ins[3].shape))))>>
     ELSE IF op = "Concat" THEN <<ConcatTensor(ins, NormAxis(node.attrs.axis, rank))>>
     ELSE IF op = "Split"
          THEN SplitTensors(x, NormAxis(GetAttrDefault(node, "axis", 0), rank), Len(node.outputs))
     ELSE IF op \in {"Softmax", "Hardmax", "LogSoftmax"}
          THEN (IF opset >= 13
                THEN <<SoftmaxTensor(op, x, {NormAxis(GetAttrDefault(node, "axis", -1), rank)})>>
                ELSE <<SoftmaxTensor(op, x, {a \in all : a >= NormAxis(GetAttrDefault(node, "axis", 1), rank)})>>)
     ELSE IF op \in {"ArgMin", "ArgMax"}
          THEN <<ArgTensor(op, x, NormAxis(GetAttrDefault(node, "axis", 0), rank),
                           GetAttrDefault(node, "keepdims", 1) # 0)>>
     ELSE IF handler_map(<<"", op>>).handler_fn \in {"HandleReduceOp", "HandleReduceSum"}
          THEN LET since == IF op = "ReduceSum" THEN 13 ELSE 99
                   ax    == axes(since)
                   keep  == GetAttrDefault(node, "keepdims", 1) # 0
               IN IF ax.some /\ ax.val # <<>> THEN <<ReduceTensor(op, x, norm(ax.val), keep)>>
                  ELSE IF GetAttrDefault(node, "noop_with_empty_axes", 0) # 0 /\ opset >= 13
                            /\ op = "ReduceSum"
                  THEN <<x>>
                  ELSE <<ReduceTensor(op, x, all, keep)>>
     ELSE IF op \in {"QuantizeLinear", "DequantizeLinear"}
          THEN <<QuantTensor(op, x, ins[2], NormAxis(GetAttrDefault(node, "axis", 1), rank))>>
     ELSE IF op = "Shape" THEN <<ShapeTensor(x)>>
     ELSE IF op = "Gather" THEN <<GatherTensor(x, DataInt64(ins[2]))>>
     ELSE IF op = "Pad"
          THEN <<PadTensor(x, IF opset >= 11 THEN DataInt64(ins[2])
                                 ELSE IF HasAttr(node, "pads") THEN node.attrs.pads
                                 ELSE Tup([k \in 1..(2 * Len(x.shape)) |-> 0]))>>
     ELSE IF op = "Tile" THEN <<TileTensor(x, DataInt64(ins[2]))>>
     ELSE IF op = "Slice"
          THEN (IF opset < 10
                THEN <<SliceTensor(x, node.attrs.starts, node.attrs.ends,
                                   IF HasAttr(node, "axes") THEN node.attrs.axes
                                   ELSE Iota(Len(node.attrs.starts)))>>
                ELSE <<SliceTensor(x, DataInt64(ins[2]), DataInt64(ins[3]),
                                   IF Len(ins) >= 4 THEN DataInt64(ins[4])
                                   ELSE Iota(Len(DataInt64(ins[2]))))>>)
     ELSE IF op = "MaxPool" THEN <<PoolTensor("MaxPool", x, FALSE), PoolTensor("MaxPoolIndices", x, FALSE)>>
     ELSE IF op = "NhwcMaxPool" THEN <<PoolTensor("MaxPool", x, TRUE)>>
     ELSE IF op \in {"QLinearAveragePool", "QLinearGlobalAveragePool"}
          THEN <<PoolTensor(op, x, GetAttrDefault(node, "channels_last", 0) # 0)>>
     ELSE <<MapTensor(op, x)>>

\* The tensor held by value v when the graph inputs hold `feeds`.
RECURSIVE EvalValue(_, _, _, _)
EvalValue(opset, g, feeds, v) ==
  IF v \in DOMAIN g.initializers THEN g.initializers[v]
  ELSE IF v \in DOMAIN feeds THEN feeds[v]
  ELSE LET n    == GetNodeProducingOutput(g, v)
           node == g.nodes[n]
           present == SelectIdx(node.inputs, Tup([k \in DOMAIN node.inputs |-> node.inputs[k] # 0]), 1)
           ins  == Tup([k \in DOMAIN present |-> EvalValue(opset, g, feeds, present[k])])
       IN ApplyOp(opset, node, ins)[OutputIndex(g, n, v) + 1]


(* ------------------------------ dispatch ------------------------------- *)
\* The cost without the estimate for the outputs.
InputsCostOnly(g, info, node, perm, input_indices, outputs_leading_to_transpose) ==
  EstimateTransposeInputsCost(g, node, perm, input_indices)

\* The cost ProcessTranspose compares with 0.
GateCost(g, info, node, perm, input_indices, outputs_leading_to_transpose) ==
  LET cost    == EstimateTransposeInputsCost(g, node, perm, input_indices)
      outputs == g.nodes[node].outputs
      ranks   == {EstimateValueRank(g, outputs[k]) : k \in DOMAIN outputs} \cup {0}
      out_cost == CHOOSE m \in ranks : \A r \in ranks : r <= m
      has_output_leading_to_transpose == \E k \in DOMAIN outputs : outputs[k] \in outputs_leading_to_transpose
  IN IF cost < 0 /\ info.transposes_outputs /\ ~has_output_leading_to_transpose
     THEN cost + out_cost ELSE cost

\* ProcessTranspose without its cost check.
AdmitsAnyCost(ctx, g, node, perm, transpose_input_index, outputs_leading_to_transpose, input_indices) ==
  /\ GetHandler(g.nodes[node], ctx.allow_extended_ops) # NoHandler
  /\ transpose_input_index \in Range(input_indices)

\* Whether ProcessTranspose reaches the handler.
Admits(ctx, g, node, perm, transpose_input_index, outputs_leading_to_transpose, input_indices) ==
  LET info == GetHandler(g.nodes[node], ctx.allow_extended_ops)
  IN /\ info # NoHandler
     /\ transpose_input_index \in Range(input_indices)
     /\ \/ ctx.skip_cost_check
        \/ IsOp(g.nodes[node], "Transpose")
        \/ IsOp(g.nodes[node], "MaxPool")
        \/ GateCost(g, info, node, perm, input_indices, outputs_leading_to_transpose) < 0

\* ProcessTranspose, given the vector transposible_inputs_fn returned and
\* `handled`, what info->handler_fn(args) returns (looked at only when the
\* call is made).
ProcessTranspose(ctx, g, node, perm, transpose_input_index, outputs_leading_to_transpose, input_indices, handled) ==
  LET Rest(r) == IF r.changed THEN r ELSE Res([r.g EXCEPT !.pushes = <<>>], FALSE)
  IN IF ~Admits(ctx, g, node, perm, transpose_input_index, outputs_leading_to_transpose, input_indices)
     THEN Res(g, FALSE)
     ELSE Rest(handled)

(* --------------------------- QEmbedLayerNorm --------------------------- *)
\* A tensor as CheckQuantizedInputs sees it: its dims and its element type.
IsScalarOr1ElementVector(tensor) == tensor.dims = <<>> \/ tensor.dims = <<1>>

Status(code, message) == [returned |-> TRUE, code |-> code, message |-> message]

\* CheckQuantizedInputs(context, &is_signed_inputs): context maps the input
\* positions 8..17 to tensors and tells whether input 1 (segment ids) is
\* there.  The Status returned, with is_signed_inputs as it is left.
CheckQuantizedInputs(context) ==
  LET word_embedding_is_signed_inputs == context.input[8].dtype = "int8"
      has_segment_embedding == context.has_segment_ids
      same(k) == (context.input[k].dtype = "int8") = word_embedding_is_signed_inputs
      bad(k)  == ~IsScalarOr1ElementVector(context.input[k])
      Invalid(what) ==
        [Status("INVALID_ARGUMENT", what) EXCEPT !.message = <<@, "must be a scalar or 1D tensor of size 1">>]
          @@ [is_signed_inputs |-> FALSE]
  IN IF bad(8) THEN Invalid("Word embedding scale")
     ELSE IF bad(9) /\ same(9) THEN Invalid("Position embedding scale")
     ELSE IF has_segment_embedding /\ bad(10) /\ same(10) THEN Invalid("Segment embedding scale")
     ELSE IF bad(11) /\ same(11) THEN Invalid("Gamma scale")
     ELSE IF bad(12) /\ same(12) THEN Invalid("Beta scale")
     ELSE IF bad(13) /\ same(13) THEN Invalid("Word embedding zero point")
     ELSE IF bad(14) /\ same(14) THEN Invalid("Position embedding zero point")
     ELSE IF has_segment_embedding /\ bad(15) /\ same(15) THEN Invalid("Segment embedding zero point")
     ELSE IF bad(16) /\ same(16) THEN Invalid("Gamma zero point")
     ELSE IF bad(17) /\ same(17) THEN Invalid("Beta zero point")
     ELSE Status("OK", <<>>) @@ [is_signed_inputs |-> word_embedding_is_signed_inputs]

\* The range tests with the upper end of the word ids let through.
IndexOutOfRangeAboveAllowed(context, index) ==
  \/ context.input_ids[index + 1] < 0
  \/ index % context.sequence_length >= context.position_embedding_length
  \/ /\ context.has_segment_ids
     /\ \/ context.segment_ids[index + 1] < 0
        \/ context.segment_ids[index + 1] >= context.segment_embedding_length

\* ComputeInternal's per-token lambda, up to its last range test: TRUE when
\* the task stores failed and returns.  context holds the input ids, the
\* segment ids when there are any, and the lengths read from the shapes.
IndexOutOfRange(context, index) ==
  LET word_col_index     == context.input_ids[index + 1]
      position_col_index == index % context.sequence_length
  IN \/ word_col_index < 0 \/ word_col_index >= context.word_embedding_length
     \/ position_col_index >= context.position_embedding_length
     \/ /\ context.has_segment_ids
        /\ \/ context.segment_ids[index + 1] < 0
           \/ context.segment_ids[index + 1] >= context.segment_embedding_length

\* The output elements of the row of a token: output_data + index * hidden_size.
OutputRow(context, index) ==
  (index * context.hidden_size)..(index * context.hidden_size + context.hidden_size - 1)

\* The three loops of a task over its row.  An element is [stage, of, by]:
\* the last loop that wrote it, what went into it (the word, position and
\* segment rows and the column for the subtotal), and the tasks that wrote it.
WriteRow(context, output_data, index, stage) ==
  [offset \in DOMAIN output_data |->
     IF offset \notin OutputRow(context, index) THEN output_data[offset]
     ELSE [stage |-> stage,
           of    |-> IF stage = "subtotal"
                     THEN <<context.input_ids[index + 1], index % context.sequence_length,
                            IF context.has_segment_ids THEN context.segment_ids[index + 1] ELSE 0,
                            offset - index * context.hidden_size>>
                     ELSE <<output_data[offset].stage>> \o output_data[offset].of,
           by    |-> output_data[offset].by \cup {index}]]

\* The mask index of each batch: the number of ones in its row of the mask,
\* zeros without a mask.
MaskIndex(context) ==
  [b \in 0..(context.batch_size - 1) |->
     IF context.has_mask
     THEN Cardinality({q \in 0..(context.sequence_length - 1) :
                         context.mask[b * context.sequence_length + q + 1] = 1})
     ELSE 0]

(* ---------------------------- ChangeLayout ----------------------------- *)
\* The LayoutHandler found for a node in layout_handler_map, called on it.
\* An entry of the map is [change, new_op_type, new_domain]; the rank handed
\* back is the rank of the node's first input, and a handler asks for the
\* change only where that rank is known and at least 2.
LayoutHandler(layout_handler_map, g, node) ==
  LET entry == layout_handler_map[g.nodes[node].op]
      info  == GetValueInfo(g, g.nodes[node].inputs[1])
  IN [should_change_layout |-> entry.change /\ info.known /\ Len(info.dims) >= 2,
      new_op_type |-> entry.new_op_type, new_domain |-> entry.new_domain, rank |-> Len(info.dims)]

\* The loop moving the named outputs of node to new_node.
RECURSIVE MoveNamedOutputs(_, _, _, _)
MoveNamedOutputs(g, node, new_node, j) ==
  IF j >= Len(g.nodes[node].outputs) THEN g
  ELSE MoveNamedOutputs(IF At(g.nodes[node].outputs, j) # 0 THEN MoveOutput(g, node, j, new_node, j) ELSE g,
                        node, new_node, j + 1)

\* LayoutPerm without the swap for last_to_first.
LayoutPermOneWay(rank, last_to_first) == ChannelLastToFirstPerm(rank)

\* The permutation put after the outputs of a changed node.
LayoutPerm(rank, last_to_first) ==
  IF last_to_first THEN InvertPerm(ChannelLastToFirstPerm(rank)) ELSE ChannelLastToFirstPerm(rank)

\* The body of ChangeLayout's loop for a node whose handler asks for the
\* change: [g, node], node being the node that is left (the replacement when
\* an op type or a domain is given).
ChangeLayoutNode(ctx, g, node, result, last_to_first) ==
  LET old      == g.nodes[node]
      replace  == result.new_op_type.some \/ result.new_domain.some
      a        == AddNode(g, IF result.new_op_type.some THEN result.new_op_type.val ELSE old.op,
                          old.inputs, Len(old.outputs),
                          IF result.new_domain.some THEN result.new_domain.val ELSE old.domain)
      new_node == LastId(a)
      b        == RemoveNode(CopyAttributes(MoveNamedOutputs(a, node, new_node, 0), new_node, node), node)
      g1       == IF replace THEN b ELSE g
      n1       == IF replace THEN new_node ELSE node
      perm     == LayoutPerm(result.rank, last_to_first)
      perm_inv == InvertPerm(perm)
  IN [g |-> TransposeOutputs(ctx, TransposeFirstInput(ctx, g1, n1, perm_inv), n1, perm), node |-> n1]

Node(op, ins, outs, attrs) ==
  [op |-> op, domain |-> "", inputs |-> ins, outputs |-> outs, attrs |-> attrs, live |-> TRUE]

Attr(name, val) == [NoAttrs EXCEPT ![name] = val, !.has = {name}]

Attr2(n1, v1, n2, v2) == [NoAttrs EXCEPT ![n1] = v1, ![n2] = v2, !.has = {n1, n2}]

(* ------------------------------- state --------------------------------- *)
VARIABLES
  nodes, value_info, initializers, next_name,   \* the graph
  graph_inputs, graph_outputs,
  opset, ms_opset, allow_extended_ops,          \* Optimize's arguments
  ctx,                                          \* OptimizerCtx
  pc, snapshot, i, j, inputs,                   \* OptimizeImpl's position
  outputs_leading_to_transpose, changed,
  calls,                                        \* Optimize calls made on the graph
  feeds, expected, initial, given, call, pushes, visits,  \* ghosts
  fn, fn_args, fn_ret,                          \* a helper called on its own
  failed, task_pc, output_data                  \* ComputeInternal's parallel loop

graph_vars == <<nodes, value_info, initializers, next_name, graph_inputs, graph_outputs>>

fn_vars == <<fn, fn_args, fn_ret>>

kernel_vars == <<failed, task_pc, output_data>>

arg_vars == <<opset, ms_opset, allow_extended_ops, calls, feeds, expected, initial, given, fn_vars,
              kernel_vars>>

vars == <<nodes, value_info, initializers, next_name, graph_inputs, graph_outputs,
          opset, ms_opset, allow_extended_ops, ctx, pc, snapshot, i, j, inputs,
          outputs_leading_to_transpose, changed, calls, feeds, expected, initial, given, call,
          pushes, visits, fn_vars, kernel_vars>>

G == [nodes |-> nodes, value_info |-> value_info, initializers |-> initializers,
      next_name |-> next_name, graph_inputs |-> graph_inputs, graph_outputs |-> graph_outputs,
      pushes |-> <<>>]

SetG(g) ==
  /\ nodes' = g.nodes
  /\ value_info' = g.value_info
  /\ initializers' = g.initializers
  /\ next_name' = g.next_name
  /\ pushes' = g.pushes
  /\ UNCHANGED <<graph_inputs, graph_outputs>>

\* What "the graph" of the claims is: nodes, value infos and initializers.
Content(g) == [nodes |-> g.nodes, value_info |-> g.value_info, initializers |-> g.initializers]

\* What fn_ret holds before the helper has returned.
NotReturned == [returned |-> FALSE]

\* A graph without nodes.
EmptyGraph == [nodes |-> <<>>, value_info |-> <<>>, initializers |-> <<>>]

\* Ghost: the last ProcessTranspose call, NoCall after any other step.  `pre` is
\* the target node before the call and `pre_axes` the axes it then read.
NoCall == [called |-> FALSE, admitted |-> FALSE, handler |-> "", changed |-> FALSE,
           node |-> 0, slot |-> 0, perm |-> <<>>, pre |-> Node("", <<>>, <<>>, NoAttrs),
           pre_axes |-> None]

(* ------------------------------ driver --------------------------------- *)
\* Optimize: MakeOptimizerContext, then OptimizeImpl takes its snapshot.
Start ==
  /\ pc = "start"
  /\ ctx' = [opset |-> opset,
             allow_extended_ops |-> allow_extended_ops /\ ms_opset = 1,
             skip_cost_check |-> FALSE]
  /\ snapshot' = Nodes(G)
  /\ pc' = "reverse"
  /\ i' = 0
  /\ call' = NoCall
  /\ UNCHANGED <<graph_vars, arg_vars, j, inputs, outputs_leading_to_transpose, changed, pushes, visits>>

\* The loop over the nodes from the first one to the last.
ReverseStepInOrder ==
  /\ pc = "reverse"
  /\ i < Len(snapshot)
  /\ LET n    == snapshot[i + 1]
         node == nodes[n]
         info == GetHandler(node, ctx.allow_extended_ops)
         hit  == \E k \in DOMAIN node.outputs : node.outputs[k] \in outputs_leading_to_transpose
     IN IF IsOp(node, "Transpose")
        THEN outputs_leading_to_transpose' = outputs_leading_to_transpose \cup {node.inputs[1]}
        ELSE IF hit /\ info # NoHandler /\ info.transposes_outputs
        THEN \E input_indices \in TransposibleInputs(info.transposible_inputs_fn, G, n) :
               outputs_leading_to_transpose' =
                 outputs_leading_to_transpose \cup {At(node.inputs, input_indices[k]) : k \in DOMAIN input_indices}
        ELSE UNCHANGED outputs_leading_to_transpose
  /\ i' = i + 1
  /\ call' = NoCall
  /\ UNCHANGED <<graph_vars, arg_vars, ctx, pc, snapshot, j, inputs, changed, pushes, visits>>

\* One iteration of the reverse loop: node snapshot[size - i - 1].
ReverseStep ==
  /\ pc = "reverse"
  /\ i < Len(snapshot)
  /\ LET n    == snapshot[Len(snapshot) - i]
         node == nodes[n]
         info == GetHandler(node, ctx.allow_extended_ops)
         hit  == \E k \in DOMAIN node.outputs : node.outputs[k] \in outputs_leading_to_transpose
     IN IF IsOp(node, "Transpose")
        THEN outputs_leading_to_transpose' = outputs_leading_to_transpose \cup {node.inputs[1]}
        ELSE IF hit /\ info # NoHandler /\ info.transposes_outputs
        THEN \E input_indices \in TransposibleInputs(info.transposible_inputs_fn, G, n) :
               outputs_leading_to_transpose' =
                 outputs_leading_to_transpose \cup {At(node.inputs, input_indices[k]) : k \in DOMAIN input_indices}
        ELSE UNCHANGED outputs_leading_to_transpose
  /\ i' = i + 1
  /\ call' = NoCall
  /\ UNCHANGED <<graph_vars, arg_vars, ctx, pc, snapshot, j, inputs, changed, pushes, visits>>

\* The forward loop starting with `changed` set.
ReverseDoneChanged ==
  /\ pc = "reverse"
  /\ i = Len(snapshot)
  /\ pc' = "forward"
  /\ i' = 0
  /\ j' = 0
  /\ inputs' = IF snapshot = <<>> THEN <<>> ELSE nodes[snapshot[1]].inputs
  /\ changed' = TRUE
  /\ call' = NoCall
  /\ UNCHANGED <<graph_vars, arg_vars, ctx, snapshot, outputs_leading_to_transpose, pushes, visits>>

\* The reverse loop ends and the forward loop starts at the first node.
ReverseDone ==
  /\ pc = "reverse"
  /\ i = Len(snapshot)
  /\ pc' = "forward"
  /\ i' = 0
  /\ j' = 0
  /\ inputs' = IF snapshot = <<>> THEN <<>> ELSE nodes[snapshot[1]].inputs
  /\ changed' = FALSE
  /\ call' = NoCall
  /\ UNCHANGED <<graph_vars, arg_vars, ctx, snapshot, outputs_leading_to_transpose, pushes, visits>>

InForward == pc = "forward" /\ i < Len(snapshot) /\ j < Len(inputs)

\* The producer of the input under the cursor, when it is a Transpose with a valid perm.
CursorTranspose ==
  LET inp == At(inputs, j)
      t   == GetNodeProducingOutput(G, inp)
  IN IF inp # 0 /\ t # 0 /\ IsOp(nodes[t], "Transpose") /\ GetPermAttrIfValid(nodes[t]).some
     THEN t ELSE 0

\* The input under the cursor is empty or not produced by a valid Transpose.
SkipInput ==
  /\ InForward
  /\ CursorTranspose = 0
  /\ j' = j + 1
  /\ call' = NoCall
  /\ UNCHANGED <<graph_vars, arg_vars, ctx, pc, snapshot, i, inputs,
                 outputs_leading_to_transpose, changed, pushes, visits>>

\* The forward loop stands on an input that a valid Transpose produces.
AtTranspose == InForward /\ CursorTranspose # 0

\* The vectors info->transposible_inputs_fn may return for the node under the cursor.
CursorInputIndices ==
  LET info == GetHandler(nodes[snapshot[i + 1]], ctx.allow_extended_ops)
  IN IF info = NoHandler THEN {<<>>}
     ELSE TransposibleInputs(info.transposible_inputs_fn, G, snapshot[i + 1])

\* The HandlerArgs ProcessTranspose builds for the input under the cursor.
CursorArgs(input_indices) ==
  HandlerArgs(CursorTranspose, snapshot[i + 1], nodes[CursorTranspose].attrs.perm,
              InvertPerm(nodes[CursorTranspose].attrs.perm), input_indices)

\* The graph the handler starts from, the push being noted.
CursorGraph(input_indices) ==
  LogPush(G, snapshot[i + 1], nodes[CursorTranspose].attrs.perm, input_indices)

\* ProcessTranspose followed by a new scan of the node's inputs when it
\* returns true.
ProcessThenRescan(handler, admitted, input_indices, handled) ==
  /\ LET n    == snapshot[i + 1]
         perm == nodes[CursorTranspose].attrs.perm
     IN /\ GetHandler(nodes[n], ctx.allow_extended_ops).handler_fn = handler
        /\ admitted = Admits(ctx, G, n, perm, j, outputs_leading_to_transpose, input_indices)
        /\ \E r \in {ProcessTranspose(ctx, G, n, perm, j, outputs_leading_to_transpose,
                                       input_indices, handled)} :
             /\ SetG(r.g)
             /\ call' = [called |-> TRUE, admitted |-> admitted, handler |-> handler,
                         changed |-> r.changed, node |-> n, slot |-> j, perm |-> perm,
                         pre |-> nodes[n],
                         pre_axes |-> ReadFromAttrOrInput(ctx, G, n, "axes", 1,
                                        IF nodes[n].op \in {"Squeeze", "Unsqueeze", "ReduceSum"}
                                        THEN 13 ELSE 99)]
             /\ changed' = (changed \/ r.changed)
             /\ j' = IF r.changed THEN 0 ELSE j + 1
             /\ inputs' = IF r.changed THEN r.g.nodes[n].inputs ELSE inputs
  /\ visits' = visits \cup {<<i, j>>}
  /\ UNCHANGED <<arg_vars, ctx, pc, snapshot, i, outputs_leading_to_transpose>>

\* ProcessTranspose on the input under the cursor, for a node whose
\* handler_fn is `handler`; `admitted` tells whether the handler is reached
\* and `handled` is what it returns.
Process(handler, admitted, input_indices, handled) ==
  /\ LET n    == snapshot[i + 1]
         perm == nodes[CursorTranspose].attrs.perm
     IN /\ GetHandler(nodes[n], ctx.allow_extended_ops).handler_fn = handler
        /\ admitted = Admits(ctx, G, n, perm, j, outputs_leading_to_transpose, input_indices)
        /\ \E r \in {ProcessTranspose(ctx, G, n, perm, j, outputs_leading_to_transpose,
                                       input_indices, handled)} :
             /\ SetG(r.g)
             /\ call' = [called |-> TRUE, admitted |-> admitted, handler |-> handler,
                         changed |-> r.changed, node |-> n, slot |-> j, perm |-> perm,
                         pre |-> nodes[n],
                         pre_axes |-> ReadFromAttrOrInput(ctx, G, n, "axes", 1,
                                        IF nodes[n].op \in {"Squeeze", "Unsqueeze", "ReduceSum"}
                                        THEN 13 ELSE 99)]
             /\ changed' = (changed \/ r.changed)
             /\ j' = IF r.changed THEN Len(inputs) ELSE j + 1
  /\ visits' = visits \cup {<<i, j>>}
  /\ UNCHANGED <<arg_vars, ctx, pc, snapshot, i, inputs, outputs_leading_to_transpose>>

\* ProcessTranspose returns false before any handler runs.
Rejected ==
  /\ AtTranspose
  /\ \E input_indices \in CursorInputIndices :
       Process(GetHandler(nodes[snapshot[i + 1]], ctx.allow_extended_ops).handler_fn, FALSE,
               input_indices, Res(G, FALSE))

SimpleNode ==
  /\ AtTranspose
  /\ \E input_indices \in CursorInputIndices :
       Process("HandleSimpleNode", TRUE, input_indices,
               HandleSimpleNode(ctx, CursorGraph(input_indices), CursorArgs(input_indices)))

SimpleNodeBroadcast ==
  /\ AtTranspose
  /\ \E input_indices \in CursorInputIndices :
       Process("HandleSimpleNodeBroadcast", TRUE, input_indices,
               HandleSimpleNodeBroadcast(ctx, CursorGraph(input_indices), CursorArgs(input_indices)))

SimpleNode1Inp ==
  /\ AtTranspose
  /\ \E input_indices \in CursorInputIndices :
       Process("HandleSimpleNode1Inp", TRUE, input_indices,
               HandleSimpleNode1Inp(ctx, CursorGraph(input_indices), CursorArgs(input_indices)))

Split ==
  /\ AtTranspose
  /\ \E input_indices \in CursorInputIndices :
       Process("HandleSplit", TRUE, input_indices,
               HandleSplit(ctx, CursorGraph(input_indices), CursorArgs(input_indices)))

Concat ==
  /\ AtTranspose
  /\ \E input_indices \in CursorInputIndices :
       Process("HandleConcat", TRUE, input_indices,
               HandleConcat(ctx, CursorGraph(input_indices), CursorArgs(input_indices)))

SoftHardMax ==
  /\ AtTranspose
  /\ \E input_indices \in CursorInputIndices :
       Process("HandleSoftHardMax", TRUE, input_indices,
               HandleSoftHardMax(ctx, CursorGraph(input_indices), CursorArgs(input_indices)))

ReduceOp ==
  /\ AtTranspose
  /\ \E input_indices \in CursorInputIndices :
       Process("HandleReduceOp", TRUE, input_indices,
               HandleReduceOp(ctx, CursorGraph(input_indices), CursorArgs(input_indices)))

ReduceSum ==
  /\ AtTranspose
  /\ \E input_indices \in CursorInputIndices :
       Process("HandleReduceSum", TRUE, input_indices,
               HandleReduceSum(ctx, CursorGraph(input_indices), CursorArgs(input_indices)))

Squeeze ==
  /\ AtTranspose
  /\ \E input_indices \in CursorInputIndices :
       Process("HandleSqueeze", TRUE, input_indices,
               HandleSqueeze(ctx, CursorGraph(input_indices), CursorArgs(input_indices)))

Unsqueeze ==
  /\ AtTranspose
  /\ \E input_indices \in CursorInputIndices :
       Process("HandleUnsqueeze", TRUE, input_indices,
               HandleUnsqueeze(ctx, CursorGraph(input_indices), CursorArgs(input_indices)))

QuantizeDequantizeLinear ==
  /\ AtTranspose
  /\ \E input_indices \in CursorInputIndices :
       Process("HandleQuantizeDequantizeLinear", TRUE, input_indices,
               HandleQuantizeDequantizeLinear(ctx, CursorGraph(input_indices), CursorArgs(input_indices)))

ArgMinMax ==
  /\ AtTranspose
  /\ \E input_indices \in CursorInputIndices :
       Process("HandleArgMinMax", TRUE, input_indices,
               HandleArgMinMax(ctx, CursorGraph(input_indices), CursorArgs(input_indices)))

TransposeNode ==
  /\ AtTranspose
  /\ \E input_indices \in CursorInputIndices :
       Process("HandleTranspose", TRUE, input_indices,
               HandleTranspose(ctx, CursorGraph(input_indices), CursorArgs(input_indices)))

QLinearConcat ==
  /\ AtTranspose
  /\ \E input_indices \in CursorInputIndices :
       Process("HandleQLinearConcat", TRUE, input_indices,
               HandleQLinearConcat(ctx, CursorGraph(input_indices), CursorArgs(input_indices)))

QLinearBinaryOp ==
  /\ AtTranspose
  /\ \E input_indices \in CursorInputIndices :
       Process("HandleQLinearBinaryOp", TRUE, input_indices,
               HandleQLinearBinaryOp(ctx, CursorGraph(input_indices), CursorArgs(input_indices)))

Shape ==
  /\ AtTranspose
  /\ \E input_indices \in CursorInputIndices :
       Process("HandleShape", TRUE, input_indices,
               HandleShape(ctx, CursorGraph(input_indices), CursorArgs(input_indices)))

Pad ==
  /\ AtTranspose
  /\ \E input_indices \in CursorInputIndices :
       Process("HandlePad", TRUE, input_indices,
               HandlePad(ctx, CursorGraph(input_indices), CursorArgs(input_indices)))

Slice ==
  /\ AtTranspose
  /\ \E input_indices \in CursorInputIndices :
       Process("HandleSlice", TRUE, input_indices,
               HandleSlice(ctx, CursorGraph(input_indices), CursorArgs(input_indices)))

Tile ==
  /\ AtTranspose
  /\ \E input_indices \in CursorInputIndices :
       Process("HandleTile", TRUE, input_indices,
               HandleTile(ctx, CursorGraph(input_indices), CursorArgs(input_indices)))

QLinearPoolOp ==
  /\ AtTranspose
  /\ \E input_indices \in CursorInputIndices :
       Process("HandleQLinearPoolOp", TRUE, input_indices,
               HandleQLinearPoolOp(ctx, CursorGraph(input_indices), CursorArgs(input_indices)))

MaxPool ==
  /\ AtTranspose
  /\ \E input_indices \in CursorInputIndices :
       Process("HandleMaxPool", TRUE, input_indices,
               HandleMaxPool(ctx, CursorGraph(input_indices), CursorArgs(input_indices)))

\* The outer loop scanning the same node again.
NextNodeAgain ==
  /\ pc = "forward"
  /\ i < Len(snapshot)
  /\ j >= Len(inputs)
  /\ j' = 0
  /\ inputs' = nodes[snapshot[i + 1]].inputs
  /\ call' = NoCall
  /\ UNCHANGED <<graph_vars, arg_vars, ctx, pc, snapshot, i, outputs_leading_to_transpose, changed, pushes, visits>>

\* The scan of node i is over: on to node i + 1, or OptimizeImpl returns.
NextNode ==
  /\ pc = "forward"
  /\ i < Len(snapshot)
  /\ j >= Len(inputs)
  /\ i' = i + 1
  /\ j' = 0
  /\ inputs' = IF i + 1 < Len(snapshot) THEN nodes[snapshot[i + 2]].inputs ELSE <<>>
  /\ call' = NoCall
  /\ UNCHANGED <<graph_vars, arg_vars, ctx, pc, snapshot, outputs_leading_to_transpose, changed, pushes, visits>>

\* The term a value stands for: the initializer's tensor, the graph input, or
\* the producing node's operator, attributes and output index over the terms
\* of its inputs, each with the value info recorded for it.  Graphs whose
\* graph outputs have equal terms differ in the names of inner values and in
\* nodes no graph output depends on.
RECURSIVE Term(_, _)
Term(g, v) ==
  IF v = 0 THEN <<"none">>
  ELSE IF v \in DOMAIN g.initializers THEN <<"initializer", g.initializers[v], GetValueInfo(g, v)>>
  ELSE IF GetNodeProducingOutput(g, v) = 0 THEN <<"input", v, GetValueInfo(g, v)>>
  ELSE LET node == g.nodes[GetNodeProducingOutput(g, v)]
       IN <<node.op, node.domain, node.attrs,
            CHOOSE k \in DOMAIN node.outputs : node.outputs[k] = v,
            Tup([k \in DOMAIN node.inputs |-> Term(g, node.inputs[k])]), GetValueInfo(g, v)>>

\* Optimize is called again on the graph a call that returned true has left.
Again ==
  /\ pc = "done"
  /\ changed
  /\ calls < MaxCalls
  /\ calls' = calls + 1
  /\ given' = given \cup {[o \in graph_outputs |-> Term(initial, o)]}
  /\ initial' = Content(G)
  /\ pc' = "start"
  /\ changed' = FALSE
  /\ call' = NoCall
  /\ visits' = {}
  /\ pushes' = <<>>
  /\ snapshot' = <<>>
  /\ i' = 0
  /\ j' = 0
  /\ inputs' = <<>>
  /\ outputs_leading_to_transpose' = {}
  /\ UNCHANGED <<graph_vars, opset, ms_opset, allow_extended_ops, ctx, feeds, expected, fn_vars, kernel_vars>>

Return ==
  /\ pc = "forward"
  /\ i = Len(snapshot)
  /\ pc' = "done"
  /\ call' = NoCall
  /\ UNCHANGED <<graph_vars, arg_vars, ctx, snapshot, i, j, inputs,
                 outputs_leading_to_transpose, changed, pushes, visits>>

Next ==
  \/ Start
  \/ ReverseStep
  \/ ReverseDone
  \/ SkipInput
  \/ Rejected
  \/ SimpleNode
  \/ SimpleNodeBroadcast
  \/ SimpleNode1Inp
  \/ Split
  \/ Concat
  \/ SoftHardMax
  \/ ReduceOp
  \/ ReduceSum
  \/ Squeeze
  \/ Unsqueeze
  \/ QuantizeDequantizeLinear
  \/ ArgMinMax
  \/ TransposeNode
  \/ QLinearConcat
  \/ QLinearBinaryOp
  \/ Shape
  \/ Pad
  \/ Slice
  \/ Tile
  \/ QLinearPoolOp
  \/ MaxPool
  \/ NextNode
  \/ Return


(* --------------------------- initial graphs ---------------------------- *)
\* A template is [nodes, inits, gin, gout, opset, ms_opset, allow, known,
\* dtypes, ints]: gin maps each graph input to the shape it is fed with,
\* `known` tells whether shape inference has filled the value infos, dtypes
\* gives the element type of the values that are not float or int64, and ints
\* the data fed to the integer graph inputs.
Templates ==
  LET
    Template(ns, inits, gin, gout, ops, known) ==
      [nodes |-> ns, inits |-> inits, gin |-> gin, gout |-> gout, opset |-> ops,
       ms_opset |-> 1, allow |-> TRUE, known |-> known, dtypes |-> <<>>, ints |-> <<>>,
       unknown |-> {}]

    \* Shape used for a graph input of rank r: distinct dimensions, the first one 1.
    ShapeOfRank(r) == Tup([k \in 1..r |-> k])

    Ranks == 2..MaxRank

    NoInits == [v \in {} |-> 0]

    \* The permutation reversing n axes.
    Rev(n) == Tup([k \in 1..n |-> n - k])

    \* Pairs of permutations of one rank.
    PermPairs == UNION {Perms(r) \X Perms(r) : r \in Ranks}

    \* The permutations the graph families are built on: every permutation up to
    \* rank 3, and above it the layout permutations (channel-last to
    \* channel-first, its inverse, the reversal).
    FamilyPerms(r) ==
      IF r <= 3 THEN Perms(r)
      ELSE {ChannelLastToFirstPerm(r), InvertPerm(ChannelLastToFirstPerm(r)), Rev(r)}

    AllPerms == UNION {FamilyPerms(r) : r \in Ranks}

    FamilyPairs == UNION {FamilyPerms(r) \X FamilyPerms(r) : r \in Ranks}

    \* The settings of the four flags of ChainTT: every one for a family
    \* permutation followed by any permutation that cancels it, none set otherwise.
    ChainFlags(p, q) ==
      IF p \in AllPerms \/ q = InvertPerm(p)
      THEN {f \in [1..4 -> BOOLEAN] : f[2] => f[1]}
      ELSE {[k \in 1..4 |-> FALSE]}

    Opt(b, seq) == IF b THEN seq ELSE <<>>

    \* w -> [Relu] -> x -> Transpose(p) -> m -> Transpose(q) -> y [-> Relu -> z]
    \* names: w = 1, x = 2, m = 3, y = 4, z = 5.
    ChainTT(p, q, src_node, x_out, mid_out, y_consumed) ==
      Template(Opt(src_node, <<Node("Relu", <<1>>, <<2>>, NoAttrs)>>)
                 \o <<Node("Transpose", <<2>>, <<3>>, Attr("perm", p)),
                      Node("Transpose", <<3>>, <<4>>, Attr("perm", q))>>
                 \o Opt(y_consumed, <<Node("Relu", <<4>>, <<5>>, NoAttrs)>>),
               NoInits,
               IF src_node THEN (1 :> ShapeOfRank(Len(p))) ELSE (2 :> ShapeOfRank(Len(p))),
               {IF y_consumed THEN 5 ELSE 4} \cup (IF x_out THEN {2} ELSE {}) \cup (IF mid_out THEN {3} ELSE {}),
               12, TRUE)

    ChainTTs ==
      UNION {{ChainTT(pq[1], pq[2], f[1], f[2], f[3], f[4]) : f \in ChainFlags(pq[1], pq[2])} :
               pq \in PermPairs}

    \* x -> Transpose(p) -> m -> Relu -> y [-> Transpose(q) -> z]; x = 1, m = 2, y = 3, z = 4.
    ChainUnary(p, q, follow, mid_out, known) ==
      Template(<<Node("Transpose", <<1>>, <<2>>, Attr("perm", p)),
                 Node("Relu", <<2>>, <<3>>, NoAttrs)>>
                 \o Opt(follow, <<Node("Transpose", <<3>>, <<4>>, Attr("perm", q))>>),
               NoInits, 1 :> ShapeOfRank(Len(p)),
               {IF follow THEN 4 ELSE 3} \cup (IF mid_out THEN {2} ELSE {}),
               12, known)

    ChainUnaries ==
      {ChainUnary(pq[1], pq[2], f[1], f[2], f[3]) : pq \in FamilyPairs, f \in [1..3 -> BOOLEAN]}

    \* Scenario S3: x: [2,3,4,5] -> Transpose([0,2,3,1]) -> Relu -> y.
    ScenarioS3 ==
      Template(<<Node("Transpose", <<1>>, <<2>>, Attr("perm", <<0, 2, 3, 1>>)),
                 Node("Relu", <<2>>, <<3>>, NoAttrs)>>,
               NoInits, 1 :> <<2, 3, 4, 5>>, {3}, 12, TRUE)

    \* Scenario S5: x: [2,3,4,5] -> Transpose([0,3,1,2]) -> ReduceMean(axes=[2], keepdims=0) -> y.
    ScenarioS5 ==
      Template(<<Node("Transpose", <<1>>, <<2>>, Attr("perm", <<0, 3, 1, 2>>)),
                 Node("ReduceMean", <<2>>, <<3>>, Attr2("axes", <<2>>, "keepdims", 0))>>,
               NoInits, 1 :> <<2, 3, 4, 5>>, {3}, 12, TRUE)

    \* Scenario S4: a: [1,4,8,8] (1), b: [8,8] (4), Add(Transpose(a, [0,2,3,1]), b) -> y (3).
    ScenarioS4(known) ==
      Template(<<Node("Transpose", <<1>>, <<2>>, Attr("perm", <<0, 2, 3, 1>>)),
                 Node("Add", <<2, 4>>, <<3>>, NoAttrs)>>,
               NoInits, (1 :> <<1, 4, 8, 8>>) @@ (4 :> <<8, 8>>), {3}, 12, known)

    \* Two nodes ahead of a Transpose: x -> Relu -> Sigmoid -> Transpose(p) -> z,
    \* the value between them a graph output or not.
    TwoBeforeTranspose(p, mid_out) ==
      Template(<<Node("Relu", <<1>>, <<2>>, NoAttrs), Node("Sigmoid", <<2>>, <<3>>, NoAttrs),
                 Node("Transpose", <<3>>, <<4>>, Attr("perm", p))>>,
               NoInits, 1 :> ShapeOfRank(Len(p)), {4} \cup (IF mid_out THEN {2} ELSE {}), 12, TRUE)

    \* Graphs without any Transpose: x -> Relu -> y -> Relu -> z.
    NoTranspose(known, mid_out) ==
      Template(<<Node("Relu", <<1>>, <<2>>, NoAttrs), Node("Sigmoid", <<2>>, <<3>>, NoAttrs)>>,
               NoInits, 1 :> ShapeOfRank(2), {3} \cup (IF mid_out THEN {2} ELSE {}), 12, known)


    \* The shape of Transpose(perm) applied to a tensor of this shape.
    Permuted(shape, perm) == Tup([k \in DOMAIN perm |-> At(shape, perm[k])])

    VendorNode(op, ins, outs, attrs) == [Node(op, ins, outs, attrs) EXCEPT !.domain = "com.microsoft"]

    \* x -> Transpose(p) -> 2 -> node -> 3 [-> Transpose(Rev) -> 9]; `before` are
    \* nodes placed ahead of `node`, `gin` the other graph inputs.
    OpChain(p, shape, before, node, inits, gin, out_rank, follow, ops, known) ==
      Template(<<Node("Transpose", <<1>>, <<2>>, Attr("perm", p))>> \o before \o <<node>>
                 \o Opt(follow, <<Node("Transpose", <<3>>, <<9>>, Attr("perm", Rev(out_rank)))>>),
               inits, (1 :> shape) @@ gin,
               {IF follow THEN 9 ELSE 3} \cup (Range(node.outputs) \ {3}), ops, known)

    \* The values an axis attribute takes: every valid axis, or none (0 = unset marker FALSE).
    AxisChoices(r) == {[set |-> TRUE, axis |-> a] : a \in (0 - r)..(r - 1)} \cup {[set |-> FALSE, axis |-> 0]}

    AxisAttr(c) == IF c.set THEN Attr("axis", c.axis) ELSE NoAttrs

    \* A permutation paired with each axis choice of its rank.
    AxisCases == UNION {{p} \X AxisChoices(Len(p)) : p \in AllPerms}

    SoftmaxChains ==
      {OpChain(pa[1], ShapeOfRank(Len(pa[1])), <<>>, Node(op, <<2>>, <<3>>, AxisAttr(pa[2])),
               NoInits, <<>>, Len(pa[1]), TRUE, ops, TRUE) :
         pa \in AxisCases, ops \in {12, 13}, op \in {"Softmax", "Hardmax"}}

    SplitChains ==
      {OpChain(pa[1], Tup([k \in 1..Len(pa[1]) |-> 2 * k]), <<>>, Node("Split", <<2>>, <<3, 4>>, AxisAttr(pa[2])),
               NoInits, <<>>, Len(pa[1]), TRUE, 12, TRUE) :
         pa \in AxisCases}

    \* Concat of the transposed value with a graph input (4) or with a second
    \* Transpose(p) of a graph input (5 -> 4).
    ConcatChains ==
      {OpChain(pa[1], ShapeOfRank(Len(pa[1])),
               Opt(second, <<Node("Transpose", <<5>>, <<4>>, Attr("perm", pa[1]))>>),
               Node("Concat", <<2, 4>>, <<3>>, AxisAttr(pa[2])), NoInits,
               IF second THEN (5 :> ShapeOfRank(Len(pa[1]))) ELSE (4 :> Permuted(ShapeOfRank(Len(pa[1])), pa[1])),
               Len(pa[1]), TRUE, 12, TRUE) :
         pa \in AxisCases, second \in BOOLEAN}

    \* Concat of two transposed graph inputs, Transpose(p) of 1 and Transpose(q)
    \* of 5, shape inference having reached the second Transpose's output (4)
    \* or not.
    ConcatOfTwoChains ==
      {LET ts == Permuted(ShapeOfRank(Len(pq[1])), pq[1])
           t  == OpChain(pq[1], ShapeOfRank(Len(pq[1])),
                         <<Node("Transpose", <<5>>, <<4>>, Attr("perm", pq[2]))>>,
                         Node("Concat", <<2, 4>>, <<3>>, Attr("axis", 0)), NoInits,
                         5 :> Permuted(ts, InvertPerm(pq[2])), Len(pq[1]), TRUE, 12, TRUE)
       IN [t EXCEPT !.unknown = IF inferred THEN {} ELSE {4}] :
         pq \in PermPairs, inferred \in BOOLEAN}

    QLinearConcatChains ==
      {OpChain(pa[1], ShapeOfRank(Len(pa[1])),
               Opt(second, <<Node("Transpose", <<12>>, <<4>>, Attr("perm", pa[1]))>>),
               VendorNode("QLinearConcat", <<5, 6, 2, 7, 8, 4, 10, 11>>, <<3>>, AxisAttr(pa[2])), NoInits,
               (IF second THEN (12 :> ShapeOfRank(Len(pa[1])))
                ELSE (4 :> Permuted(ShapeOfRank(Len(pa[1])), pa[1])))
                 @@ [v \in {5, 6, 7, 8, 10, 11} |-> <<>>],
               Len(pa[1]), TRUE, 12, TRUE) :
         pa \in AxisCases, second \in BOOLEAN}

    QLinearAddChains ==
      {OpChain(c[1], ShapeOfRank(Len(c[1])), <<>>,
               VendorNode("QLinearAdd", <<2, 5, 6, 4, 7, 8, 10, 11>>, <<3>>, NoAttrs), NoInits,
               (4 :> c[2]) @@ [v \in {5, 6, 7, 8, 10, 11} |-> <<>>],
               Len(c[1]), TRUE, 12, TRUE) :
         c \in UNION {{p} \X {Permuted(ShapeOfRank(Len(p)), p), Tail(Permuted(ShapeOfRank(Len(p)), p))} :
                        p \in AllPerms}}

    ArgMaxChains ==
      {OpChain(pa[1], ShapeOfRank(Len(pa[1])), <<>>,
               Node("ArgMax", <<2>>, <<3>>,
                    IF pa[2].set THEN Attr2("axis", pa[2].axis, "keepdims", keepdims) ELSE Attr("keepdims", keepdims)),
               NoInits, <<>>, IF keepdims = 1 THEN Len(pa[1]) ELSE Len(pa[1]) - 1, follow, 12, TRUE) :
         pa \in AxisCases, keepdims \in {0, 1},
         follow \in BOOLEAN}

    \* Axes lists given to reductions of a rank-r value: one axis, two axes out
    \* of order, or none.
    AxesChoices(r) ==
      {[set |-> TRUE, axes |-> <<a>>] : a \in (0 - r)..(r - 1)}
      \cup {[set |-> TRUE, axes |-> <<r - 1, 0>>], [set |-> TRUE, axes |-> <<-1, 0>>],
            [set |-> FALSE, axes |-> <<>>]}

    AxesCases == UNION {{p} \X AxesChoices(Len(p)) : p \in AllPerms}

    ReduceAttrs(c, keepdims) ==
      IF c.set THEN Attr2("axes", c.axes, "keepdims", keepdims) ELSE Attr("keepdims", keepdims)

    ReducedRank(r, c, keepdims) == IF keepdims = 1 THEN r ELSE IF c.set THEN r - Len(c.axes) ELSE 0

    ReduceChains ==
      {OpChain(pa[1], ShapeOfRank(Len(pa[1])), <<>>,
               Node(op, <<2>>, <<3>>, ReduceAttrs(pa[2], keepdims)), NoInits, <<>>,
               ReducedRank(Len(pa[1]), pa[2], keepdims), TRUE, 12, TRUE) :
         pa \in AxesCases, keepdims \in {0, 1},
         op \in {"ReduceMean", "ReduceSum"}}

    ReduceSum13Chains ==
      {OpChain(pa[1], ShapeOfRank(Len(pa[1])), <<>>,
               Node("ReduceSum", IF pa[2].set THEN <<2, 5>> ELSE <<2>>, <<3>>, Attr("keepdims", keepdims)),
               IF pa[2].set THEN (5 :> IntTensor(pa[2].axes)) ELSE NoInits, <<>>,
               ReducedRank(Len(pa[1]), pa[2], keepdims), TRUE, 13, TRUE) :
         pa \in AxesCases, keepdims \in {0, 1}}

    \* Squeeze of the unit axes of the transposed value: the input has a unit
    \* first axis, or unit first and last axes.
    SqueezeCases(p) ==
      LET r   == Len(p)
          pos(d) == CHOOSE k \in 0..(r - 1) : At(p, k) = d
      IN {[shape |-> ShapeOfRank(r), axes |-> <<pos(0)>>],
          [shape |-> ShapeOfRank(r), axes |-> <<pos(0) - r>>]}
         \cup (IF r >= 3
               THEN {[shape |-> Tup([k \in 1..r |-> IF k \in {1, r} THEN 1 ELSE k]),
                      axes |-> <<Max2(pos(0), pos(r - 1)), pos(0) + pos(r - 1) - Max2(pos(0), pos(r - 1))>>]}
               ELSE {})

    SqueezeChains ==
      {OpChain(c[1], c[2].shape, <<>>,
               IF ops < 13 THEN Node("Squeeze", <<2>>, <<3>>, Attr("axes", c[2].axes))
               ELSE Node("Squeeze", <<2, 5>>, <<3>>, NoAttrs),
               IF ops < 13 THEN NoInits ELSE (5 :> IntTensor(c[2].axes)), <<>>,
               Len(c[1]) - Len(c[2].axes), TRUE, ops, TRUE) :
         c \in UNION {{p} \X SqueezeCases(p) : p \in AllPerms}, ops \in {12, 13}}

    UnsqueezeChains ==
      {OpChain(c[1], ShapeOfRank(Len(c[1])), <<>>,
               IF ops < 13 THEN Node("Unsqueeze", <<2>>, <<3>>, Attr("axes", <<c[2]>>))
               ELSE Node("Unsqueeze", <<2, 5>>, <<3>>, NoAttrs),
               IF ops < 13 THEN NoInits ELSE (5 :> IntTensor(<<c[2]>>)), <<>>,
               Len(c[1]) + 1, TRUE, ops, TRUE) :
         c \in UNION {{p} \X (-1..Len(p)) : p \in AllPerms}, ops \in {12, 13}}

    \* QuantizeLinear with a per-axis (1-D) scale at opset 13, a scalar one before.
    QuantizeChains ==
      {OpChain(c[1], ShapeOfRank(Len(c[1])), <<>>,
               Node("QuantizeLinear", <<2, 5>>, <<3>>, AxisAttr(c[2])), NoInits,
               5 :> (IF ops < 13 THEN <<>>
                     ELSE <<At(Permuted(ShapeOfRank(Len(c[1])), c[1]),
                               NormAxis(IF c[2].set THEN c[2].axis ELSE 1, Len(c[1])))>>),
               Len(c[1]), TRUE, ops, TRUE) :
         c \in UNION {{p} \X AxisChoices(Len(p)) : p \in AllPerms}, ops \in {12, 13}}

    ClipChains ==
      {OpChain(p, ShapeOfRank(Len(p)), <<>>, Node("Clip", <<2, 4, 5>>, <<3>>, NoAttrs), NoInits,
               (4 :> <<>>) @@ (5 :> <<>>), Len(p), TRUE, 12, TRUE) : p \in AllPerms}

    \* Add of the transposed value (2) and a second operand (4).  The second
    \* operand is a graph input of the same or a lower rank, an initializer of
    \* the same or a lower rank, an initializer that a Relu reads as well, an
    \* initializer without a dimension of 1 that is a graph output as well, or
    \* Transpose(q) of a lower-rank graph input (5), which may also be a graph
    \* output, or a lower-rank graph input that an Unsqueeze of axis 0 reads too.
    SecondOperands(p) ==
      LET ts  == Permuted(ShapeOfRank(Len(p)), p)
          low == Tail(ts)
      IN {[before |-> <<>>, inits |-> NoInits, gin |-> (4 :> sh), out |-> {}] : sh \in {ts, low, <<>>}}
         \cup {[before |-> <<>>, inits |-> (4 :> SourceTensor(4, sh)), gin |-> <<>>, out |-> {}] :
                 sh \in {ts, low}}
         \cup {[before |-> <<Node("Relu", <<4>>, <<6>>, NoAttrs)>>, inits |-> (4 :> SourceTensor(4, ts)),
                gin |-> <<>>, out |-> {6}]}
         \cup {[before |-> <<>>, gin |-> <<>>, out |-> {4},
                inits |-> (4 :> SourceTensor(4, Tup([k \in DOMAIN ts |-> Max2(ts[k], 2)])))]}
         \cup {[before |-> <<Node("Unsqueeze", <<4>>, <<6>>, Attr("axes", <<0>>))>>, inits |-> NoInits,
                gin |-> (4 :> low), out |-> {6}]}
         \cup {[before |-> <<Node("Transpose", <<5>>, <<4>>, Attr("perm", q))>>, inits |-> NoInits,
                gin |-> (5 :> Permuted(low, InvertPerm(q))), out |-> o] :
                 q \in FamilyPerms(Len(p) - 1), o \in {{}, {4}}}

    \* Shape of the transposed value, with the start and end of opset 15.
    ShapeChains ==
      {OpChain(p, ShapeOfRank(Len(p)), <<>>, Node("Shape", <<2>>, <<3>>, attrs), NoInits, <<>>,
               1, FALSE, ops, known) :
         p \in AllPerms, ops \in {12}, attrs \in {NoAttrs}, known \in BOOLEAN}
      \cup
      {OpChain(p, ShapeOfRank(Len(p)), <<>>, Node("Shape", <<2>>, <<3>>, attrs), NoInits, <<>>,
               1, FALSE, 15, TRUE) :
         p \in AllPerms,
         attrs \in {NoAttrs, Attr("start", 1), Attr("start", -1), Attr("end", -1), Attr("end", 1),
                    Attr2("start", 1, "end", 2), Attr2("start", 2, "end", 1),
                    Attr2("start", -5, "end", 5)}}

    \* Pads of a rank-r value, starts followed by ends: 0, 1, 2, 0, ..., or one
    \* start only, or one end only.
    PadsOf(r) ==
      {Tup([k \in 1..(2 * r) |-> (k - 1) % 3]),
       Tup([k \in 1..(2 * r) |-> IF k = 2 THEN 1 ELSE 0]),
       Tup([k \in 1..(2 * r) |-> IF k = 2 * r THEN 2 ELSE 0])}

    PadCases == UNION {{p} \X PadsOf(Len(p)) : p \in AllPerms}

    \* Pad of the transposed value: pads in the attribute (or missing) at opset
    \* 10; an initializer or an integer graph input (5) at opset 11.
    PadChains ==
      {OpChain(c[1], ShapeOfRank(Len(c[1])), <<>>,
               Node("Pad", <<2>>, <<3>>, IF set THEN Attr("pads", c[2]) ELSE NoAttrs),
               NoInits, <<>>, Len(c[1]), TRUE, 10, TRUE) :
         c \in PadCases, set \in BOOLEAN}
      \cup
      {[OpChain(c[1], ShapeOfRank(Len(c[1])), <<>>, Node("Pad", <<2, 5>>, <<3>>, NoAttrs),
                IF const THEN (5 :> IntTensor(c[2])) ELSE NoInits,
                IF const THEN <<>> ELSE (5 :> <<2 * Len(c[1])>>), Len(c[1]), TRUE, 11, TRUE)
          EXCEPT !.ints = IF const THEN <<>> ELSE (5 :> c[2])] :
         c \in PadCases, const \in BOOLEAN}

    \* Tile of the transposed value, repeating its first axis twice.
    TileChains ==
      {[OpChain(p, ShapeOfRank(Len(p)), <<>>, Node("Tile", <<2, 5>>, <<3>>, NoAttrs),
                IF const THEN (5 :> IntTensor(<<2>> \o Tail(Tup([k \in DOMAIN p |-> 1])))) ELSE NoInits,
                IF const THEN <<>> ELSE (5 :> <<Len(p)>>), Len(p), TRUE, 12, TRUE)
          EXCEPT !.ints = IF const THEN <<>> ELSE (5 :> <<2>> \o Tail(Tup([k \in DOMAIN p |-> 1])))] :
         p \in AllPerms, const \in BOOLEAN}

    \* What a Slice of a rank-r value with axes longer than 1 is given: one
    \* axis, two axes out of order, an axis out of range, or no axes.
    SliceChoices(r) ==
      {[set |-> TRUE, axes |-> <<a>>, starts |-> <<1>>, ends |-> <<2>>] : a \in (0 - r - 1)..(r - 1)}
      \cup {[set |-> TRUE, axes |-> <<r - 1, 0>>, starts |-> <<1, 0>>, ends |-> <<2, 1>>],
            [set |-> FALSE, axes |-> <<>>, starts |-> <<1>>, ends |-> <<2>>],
            [set |-> FALSE, axes |-> <<>>, starts |-> <<1, 0>>, ends |-> <<2, 1>>]}

    SliceCases == UNION {{p} \X SliceChoices(Len(p)) : p \in AllPerms}

    \* Slice of the transposed value at opset 9: starts, ends and axes are attributes.
    Slice9Chains ==
      {OpChain(c[1], Tup([k \in DOMAIN c[1] |-> k + 1]), <<>>,
               Node("Slice", <<2>>, <<3>>,
                    [Attr2("starts", c[2].starts, "ends", c[2].ends)
                       EXCEPT !.axes = c[2].axes,
                              !.has = @ \cup (IF c[2].set THEN {"axes"} ELSE {})]),
               NoInits, <<>>, Len(c[1]), TRUE, 9, TRUE) :
         c \in SliceCases}

    \* Slice at opset 10: starts (5), ends (6) and axes (7) are inputs; axes is
    \* an int64 or int32 initializer, an integer graph input, or absent, and
    \* starts an initializer or an integer graph input of unknown shape.
    Slice10Chains ==
      {[OpChain(c[1], Tup([k \in DOMAIN c[1] |-> k + 1]), <<>>,
                Node("Slice", IF c[2].set THEN <<2, 5, 6, 7>> ELSE <<2, 5, 6>>, <<3>>, NoAttrs),
                (6 :> IntTensor(c[2].ends))
                  @@ (IF from_input THEN NoInits ELSE (5 :> IntTensor(c[2].starts)))
                  @@ (IF c[2].set /\ kind # "input" THEN (7 :> IntTensor(c[2].axes)) ELSE NoInits),
                (IF from_input THEN (5 :> <<Len(c[2].starts)>>) ELSE <<>>)
                  @@ (IF c[2].set /\ kind = "input" THEN (7 :> <<Len(c[2].axes)>>) ELSE <<>>),
                Len(c[1]), TRUE, 10, ~from_input)
          EXCEPT !.ints = (IF from_input THEN (5 :> c[2].starts) ELSE <<>>)
                            @@ (IF c[2].set /\ kind = "input" THEN (7 :> c[2].axes) ELSE <<>>),
                 !.dtypes = IF kind = "int32" THEN (7 :> "int32") ELSE <<>>] :
         c \in SliceCases, kind \in {"int64", "int32", "input"}, from_input \in BOOLEAN}

    \* The permutations fed to the pooling operators: the family ones and the
    \* two layout permutations of rank 4, which are not their own inverses.
    PoolPerms == AllPerms \cup {ChannelLastToFirstPerm(4), <<0, 2, 3, 1>>}

    \* MaxPool of the transposed value, with or without the indices output, on
    \* 8-bit or float data.
    MaxPoolChains ==
      {[OpChain(p, ShapeOfRank(Len(p)), <<>>,
                Node("MaxPool", <<2>>, IF indices THEN <<3, 4>> ELSE <<3>>, Attr("storage_order", 0)),
                NoInits, <<>>, Len(p), follow, 12, TRUE) EXCEPT !.dtypes = [v \in 1..9 |-> dt]] :
         p \in PoolPerms, indices \in BOOLEAN, follow \in BOOLEAN, dt \in {"uint8", "float"}}

    \* A QLinear pool of the transposed value, in either layout.
    QLinearPoolChains ==
      {OpChain(p, ShapeOfRank(Len(p)), <<>>,
               VendorNode(op, <<2, 5, 6, 7, 8>>, <<3>>, Attr("channels_last", cl)), NoInits,
               [v \in {5, 6, 7, 8} |-> <<>>], Len(p), TRUE, 12, TRUE) :
         p \in PoolPerms, cl \in {0, 1}, op \in {"QLinearAveragePool", "QLinearGlobalAveragePool"}}

    AddChains ==
      {LET t == OpChain(c[1], ShapeOfRank(Len(c[1])), c[2].before,
                        Node("Add", IF swap THEN <<4, 2>> ELSE <<2, 4>>, <<3>>, NoAttrs),
                        c[2].inits, c[2].gin, Len(c[1]), TRUE, 12, known)
       IN [t EXCEPT !.gout = @ \cup c[2].out] :
         c \in UNION {{p} \X SecondOperands(p) : p \in AllPerms}, swap \in BOOLEAN, known \in BOOLEAN}
    \* Sum of the transposed value (2) and an initializer (4) read by two of its
    \* inputs, and by a Relu as well or not.
    SumChains ==
      {LET t == OpChain(p, ShapeOfRank(Len(p)), Opt(relu, <<Node("Relu", <<4>>, <<6>>, NoAttrs)>>),
                        Node("Sum", <<4, 2, 4>>, <<3>>, NoAttrs),
                        4 :> SourceTensor(4, Permuted(ShapeOfRank(Len(p)), p)), <<>>, Len(p), TRUE, 12, TRUE)
       IN [t EXCEPT !.gout = @ \cup (IF relu THEN {6} ELSE {})] :
         p \in AllPerms, relu \in BOOLEAN}
    \* The transposed value read by a MaxPool (-> 5) and by a Relu (-> 3), with
    \* the extended operators allowed or not and the com.microsoft opset 1,
    \* another one (2) or absent (0).
    SharedWithMaxPoolChains ==
      {LET t == OpChain(p, ShapeOfRank(Len(p)),
                        <<Node("MaxPool", <<2>>, <<5>>, Attr("storage_order", 0))>>,
                        Node("Relu", <<2>>, <<3>>, NoAttrs), NoInits, <<>>, Len(p), follow, 12, TRUE)
       IN [t EXCEPT !.gout = @ \cup {5}, !.allow = a, !.ms_opset = m] :
         p \in AllPerms, follow \in BOOLEAN, a \in BOOLEAN, m \in {0, 1, 2}}
  IN ChainTTs \cup ChainUnaries \cup SumChains
     \cup {ScenarioS3, ScenarioS5} \cup {ScenarioS4(known) : known \in BOOLEAN}
     \cup {NoTranspose(k, m) : k, m \in BOOLEAN}
     \cup {TwoBeforeTranspose(p, m) : p \in AllPerms, m \in BOOLEAN}
     \cup SoftmaxChains \cup SplitChains \cup ConcatChains \cup ConcatOfTwoChains \cup QLinearConcatChains
     \cup QLinearAddChains \cup ArgMaxChains \cup ReduceChains \cup ReduceSum13Chains
     \cup SqueezeChains \cup UnsqueezeChains \cup QuantizeChains \cup ClipChains \cup AddChains
     \cup MaxPoolChains \cup QLinearPoolChains \cup SharedWithMaxPoolChains
     \cup ShapeChains \cup PadChains \cup TileChains \cup Slice9Chains \cup Slice10Chains

\* All value names of a template.
TemplateNames(t) ==
  (DOMAIN t.gin) \cup (DOMAIN t.inits)
  \cup UNION {Range(t.nodes[n].outputs) : n \in DOMAIN t.nodes}

TemplateFeeds(t) ==
  [v \in DOMAIN t.gin |-> IF v \in DOMAIN t.ints THEN IntTensor(t.ints[v])
                          ELSE SourceTensor(v, t.gin[v])]

\* The graph of a template, with the value infos shape inference gives.
TemplateGraph(t) ==
  LET bare == [nodes |-> t.nodes, value_info |-> <<>>, initializers |-> t.inits,
               next_name |-> (CHOOSE m \in TemplateNames(t) : \A x \in TemplateNames(t) : x <= m) + 1,
               graph_inputs |-> DOMAIN t.gin, graph_outputs |-> t.gout, pushes |-> <<>>]
      shape(v) == EvalValue(t.opset, bare, TemplateFeeds(t), v).shape
  IN [bare EXCEPT !.value_info =
        [v \in TemplateNames(t) |->
           LET dtype == IF v \in DOMAIN t.dtypes THEN t.dtypes[v]
                        ELSE IF v \in DOMAIN t.ints THEN "int64"
                        ELSE IF v \notin DOMAIN t.inits THEN "float"
                        ELSE IF t.inits[v].elems[Unflat(0, t.inits[v].shape)].op = "int"
                        THEN "int64" ELSE "float"
           IN IF v \in DOMAIN t.inits THEN Info(t.inits[v].shape, dtype)
              ELSE IF t.known /\ v \notin t.unknown THEN Info(shape(v), dtype)
              ELSE [NoInfo EXCEPT !.dtype = dtype]]]

Init ==
  \E t \in Templates :
    LET g == TemplateGraph(t)
    IN /\ nodes = g.nodes
       /\ value_info = g.value_info
       /\ initializers = g.initializers
       /\ next_name = g.next_name
       /\ graph_inputs = g.graph_inputs
       /\ graph_outputs = g.graph_outputs
       /\ opset = t.opset
       /\ ms_opset = t.ms_opset
       /\ allow_extended_ops = t.allow
       /\ ctx = [opset |-> 0, allow_extended_ops |-> FALSE, skip_cost_check |-> FALSE]
       /\ pc = "start"
       /\ snapshot = <<>>
       /\ i = 0
       /\ j = 0
       /\ inputs = <<>>
       /\ outputs_leading_to_transpose = {}
       /\ changed = FALSE
       /\ feeds = TemplateFeeds(t)
       /\ expected = [o \in t.gout |-> EvalValue(t.opset, g, TemplateFeeds(t), o)]
       /\ initial = Content(g)
       /\ calls = 1
       /\ given = {}
       /\ call = NoCall
       /\ pushes = <<>>
       /\ visits = {}
       /\ fn = "Optimize"
       /\ fn_args = <<>>
       /\ fn_ret = NotReturned
       /\ failed = FALSE /\ task_pc = <<>> /\ output_data = <<>>

Spec == Init /\ [][Next]_vars

\* Optimize called up to MaxCalls times in a row.
SpecRepeated == Init /\ [][Next \/ Again]_vars

(* ----------------------- helpers called on their own -------------------- *)
\* No graph is being optimized.
NoOptimize ==
  /\ nodes = <<>> /\ value_info = <<>> /\ initializers = <<>> /\ next_name = 1
  /\ graph_inputs = {} /\ graph_outputs = {}
  /\ opset = 0 /\ ms_opset = 0 /\ allow_extended_ops = FALSE
  /\ ctx = [opset |-> 0, allow_extended_ops |-> FALSE, skip_cost_check |-> FALSE]
  /\ pc = "idle" /\ snapshot = <<>> /\ i = 0 /\ j = 0 /\ inputs = <<>>
  /\ outputs_leading_to_transpose = {} /\ changed = FALSE
  /\ feeds = <<>> /\ expected = <<>> /\ initial = Content(EmptyGraph)
  /\ calls = 0 /\ given = {} /\ call = NoCall /\ pushes = <<>> /\ visits = {}

\* The axes lists a handler may read from a node: up to two entries, each
\* from -(MaxRank + 1) to MaxRank + 1.
AxesLists ==
  LET vals == (0 - MaxRank - 1)..(MaxRank + 1)
  IN {<<>>} \cup {<<a>> : a \in vals} \cup {<<a, b>> : a, b \in vals}

\* The scale and zero-point inputs handed to the kernel: scalar float scales
\* and scalar zero points of one 8-bit type, up to two of the ten tensors
\* having another shape or another element type; with or without segment ids.
QuantizedContexts ==
  LET usual(zp) == [k \in 8..17 |-> [dims |-> <<>>, dtype |-> IF k <= 12 THEN "float" ELSE zp]]
      others    == {[dims |-> d, dtype |-> t] : d \in {<<>>, <<1>>, <<2>>, <<1, 1>>},
                                                 t \in {"float", "int8", "uint8"}}
  IN {[input |-> [k \in 8..17 |-> IF k = a THEN x ELSE IF k = b THEN y ELSE usual(zp)[k]],
       has_segment_ids |-> seg] :
        a \in 8..17, b \in 8..17, x \in others, y \in others, zp \in {"int8", "uint8"}, seg \in BOOLEAN}

InitFunctions ==
  /\ NoOptimize
  /\ fn_ret = NotReturned
  /\ failed = FALSE /\ task_pc = <<>> /\ output_data = <<>>
  /\ \/ /\ fn = "NormalizeAndValidateAxes"
        /\ fn_args \in {[axes |-> a, rank |-> r] : a \in AxesLists, r \in 0..MaxRank}
     \/ /\ fn = "ChannelLastToFirstPerm"
        /\ fn_args \in {[rank |-> r] : r \in 1..(MaxRank + 1)}
     \/ /\ fn = "CheckQuantizedInputs"
        /\ fn_args \in QuantizedContexts

\* NormalizeAndValidateAxes(axes, rank): the bool returned and the axes left
\* in the vector.
CallNormalizeAndValidateAxes ==
  /\ fn = "NormalizeAndValidateAxes"
  /\ fn_ret = NotReturned
  /\ fn_ret' = NormalizeAndValidateAxes(fn_args.axes, fn_args.rank)
  /\ UNCHANGED <<graph_vars, opset, ms_opset, allow_extended_ops, calls, feeds, expected, initial, given,
                 fn, fn_args, ctx, pc, snapshot, i, j, inputs, outputs_leading_to_transpose, changed,
                 call, pushes, visits, kernel_vars>>

\* ChannelLastToFirstPerm(rank): the vector returned, as the writes inside it
\* leave it, and the indices written.
CallChannelLastToFirstPerm ==
  /\ fn = "ChannelLastToFirstPerm"
  /\ fn_ret = NotReturned
  /\ fn_ret' = [perm |-> ChannelLastToFirstPerm(fn_args.rank),
                written |-> ChannelLastToFirstPermWrites(fn_args.rank)]
  /\ UNCHANGED <<graph_vars, opset, ms_opset, allow_extended_ops, calls, feeds, expected, initial, given,
                 fn, fn_args, ctx, pc, snapshot, i, j, inputs, outputs_leading_to_transpose, changed,
                 call, pushes, visits, kernel_vars>>

CallCheckQuantizedInputs ==
  /\ fn = "CheckQuantizedInputs"
  /\ fn_ret = NotReturned
  /\ fn_ret' = CheckQuantizedInputs(fn_args)
  /\ UNCHANGED <<graph_vars, opset, ms_opset, allow_extended_ops, calls, feeds, expected, initial, given,
                 fn, fn_args, ctx, pc, snapshot, i, j, inputs, outputs_leading_to_transpose, changed,
                 call, pushes, visits, kernel_vars>>

NextFunctions ==
  \/ CallNormalizeAndValidateAxes
  \/ CallChannelLastToFirstPerm
  \/ CallCheckQuantizedInputs

SpecFunctions == InitFunctions /\ [][NextFunctions]_vars

(* ------------------------ ChangeLayout, the calls ----------------------- *)
\* ChangeLayout: MakeOptimizerContext, then the nodes are listed.
ChangeLayoutStart ==
  /\ fn = "ChangeLayout"
  /\ pc = "layout_start"
  /\ ctx' = [opset |-> opset,
             allow_extended_ops |-> allow_extended_ops /\ ms_opset = 1,
             skip_cost_check |-> FALSE]
  /\ snapshot' = Nodes(G)
  /\ i' = 0
  /\ changed' = FALSE
  /\ pc' = "layout"
  /\ UNCHANGED <<graph_vars, arg_vars, j, inputs, outputs_leading_to_transpose, call, pushes, visits>>

\* One iteration of ChangeLayout's loop.
ChangeLayoutStep ==
  /\ fn = "ChangeLayout"
  /\ pc = "layout"
  /\ i < Len(snapshot)
  /\ LET node == snapshot[i + 1]
     IN IF nodes[node].op \in DOMAIN fn_args.layout_handler_map
           /\ LayoutHandler(fn_args.layout_handler_map, G, node).should_change_layout
        THEN /\ SetG(ChangeLayoutNode(ctx, G, node, LayoutHandler(fn_args.layout_handler_map, G, node),
                                      fn_args.last_to_first).g)
             /\ changed' = TRUE
        ELSE UNCHANGED <<graph_vars, pushes, changed>>
  /\ i' = i + 1
  /\ UNCHANGED <<arg_vars, ctx, pc, snapshot, j, inputs, outputs_leading_to_transpose, call, visits>>

\* After the loop: Optimize is called when a node was changed, and false is
\* returned otherwise.
ChangeLayoutOptimize ==
  /\ fn = "ChangeLayout"
  /\ pc = "layout"
  /\ i = Len(snapshot)
  /\ IF changed
     THEN /\ pc' = "start"
          /\ changed' = FALSE
          /\ snapshot' = <<>>
          /\ i' = 0
          /\ UNCHANGED fn_ret
     ELSE /\ pc' = "returned"
          /\ fn_ret' = [returned |-> TRUE, value |-> FALSE]
          /\ UNCHANGED <<changed, snapshot, i>>
  /\ UNCHANGED <<graph_vars, opset, ms_opset, allow_extended_ops, calls, feeds, expected, initial, given,
                 fn, fn_args, ctx, j, inputs, outputs_leading_to_transpose, call, pushes, visits, kernel_vars>>

\* Optimize has returned: ChangeLayout returns its own flag, which was true.
ChangeLayoutReturn ==
  /\ fn = "ChangeLayout"
  /\ pc = "done"
  /\ pc' = "returned"
  /\ fn_ret' = [returned |-> TRUE, value |-> TRUE]
  /\ UNCHANGED <<graph_vars, opset, ms_opset, allow_extended_ops, calls, feeds, expected, initial, given,
                 fn, fn_args, ctx, snapshot, i, j, inputs, outputs_leading_to_transpose, changed,
                 call, pushes, visits, kernel_vars>>

\* An entry of layout_handler_map; an op type or a domain that is not given
\* is [some |-> FALSE, val |-> ""].
LayoutEntry(change, new_op_type, new_domain) ==
  [change |-> change, new_op_type |-> new_op_type, new_domain |-> new_domain]

\* The maps handed to ChangeLayout: MaxPool becomes the channel-last
\* NhwcMaxPool (or the reverse), alone or with Relu, which is wrapped as it is
\* or left alone; or MaxPool changes its domain only.
LayoutMaps ==
  LET absent == [some |-> FALSE, val |-> ""]
      to_nhwc == LayoutEntry(TRUE, Some("NhwcMaxPool"), Some("com.microsoft"))
      to_nchw == LayoutEntry(TRUE, Some("MaxPool"), Some(""))
  IN {"MaxPool" :> to_nhwc, "NhwcMaxPool" :> to_nchw,
      "MaxPool" :> LayoutEntry(TRUE, absent, Some("com.microsoft.nhwc"))}
     \cup {("MaxPool" :> to_nhwc) @@ ("Relu" :> LayoutEntry(b, absent, absent)) : b \in BOOLEAN}

\* The graphs ChangeLayout is called on: every template with a MaxPool of a
\* graph input of rank 4 put next to it, and chains of two nodes out of
\* MaxPool, NhwcMaxPool and Relu on a graph input or on an initializer of
\* rank 2 to 4.
LayoutTemplates ==
  LET shape(r) == Tup([k \in 1..r |-> k])
      pool(op, in, out) == [Node(op, <<in>>, <<out>>, NoAttrs) EXCEPT
                              !.domain = IF op = "NhwcMaxPool" THEN "com.microsoft" ELSE ""]
      chain(ops, r, const, both) ==
        [nodes |-> <<pool(ops[1], 1, 2), pool(ops[2], 2, 3)>>,
         inits |-> IF const THEN 1 :> SourceTensor(1, shape(r)) ELSE [v \in {} |-> 0],
         gin |-> IF const THEN [v \in {} |-> 0] ELSE 1 :> shape(r),
         gout |-> IF both THEN {2, 3} ELSE {3},
         opset |-> 12, ms_opset |-> 1, allow |-> TRUE, known |-> TRUE, dtypes |-> <<>>, ints |-> <<>>,
         unknown |-> {}]
  IN {[t EXCEPT !.nodes = @ \o <<pool("MaxPool", 30, 31)>>,
                !.gin = @ @@ (30 :> shape(4)),
                !.gout = @ \cup {31}] : t \in Templates}
     \cup {chain(ops, r, const, both) :
             ops \in {"MaxPool", "NhwcMaxPool", "Relu"} \X {"MaxPool", "NhwcMaxPool", "Relu"},
             r \in 2..4, const \in BOOLEAN, both \in BOOLEAN}

InitLayout ==
  \E t \in LayoutTemplates :
    LET g == TemplateGraph(t)
    IN /\ nodes = g.nodes
       /\ value_info = g.value_info
       /\ initializers = g.initializers
       /\ next_name = g.next_name
       /\ graph_inputs = g.graph_inputs
       /\ graph_outputs = g.graph_outputs
       /\ opset = t.opset
       /\ ms_opset = t.ms_opset
       /\ allow_extended_ops = t.allow
       /\ ctx = [opset |-> 0, allow_extended_ops |-> FALSE, skip_cost_check |-> FALSE]
       /\ pc = "layout_start"
       /\ snapshot = <<>>
       /\ i = 0
       /\ j = 0
       /\ inputs = <<>>
       /\ outputs_leading_to_transpose = {}
       /\ changed = FALSE
       /\ feeds = TemplateFeeds(t)
       /\ expected = [o \in t.gout |-> EvalValue(t.opset, g, TemplateFeeds(t), o)]
       /\ initial = Content(g)
       /\ calls = 1
       /\ given = {}
       /\ call = NoCall
       /\ pushes = <<>>
       /\ visits = {}
       /\ fn = "ChangeLayout"
       /\ fn_args \in IF 31 \in t.gout
                      THEN {[layout_handler_map |-> "MaxPool" :> LayoutEntry(TRUE, Some("NhwcMaxPool"),
                                                                           Some("com.microsoft")),
                             last_to_first |-> FALSE]}
                      ELSE {[layout_handler_map |-> m, last_to_first |-> d] : m \in LayoutMaps, d \in BOOLEAN}
       /\ fn_ret = NotReturned
       /\ failed = FALSE /\ task_pc = <<>> /\ output_data = <<>>

NextLayout ==
  \/ ChangeLayoutStart
  \/ ChangeLayoutStep
  \/ ChangeLayoutOptimize
  \/ ChangeLayoutReturn
  \/ Next

SpecLayout == InitLayout /\ [][NextLayout]_vars

(* --------------------- QEmbedLayerNorm ComputeInternal ------------------ *)
\* The calls: up to MaxTokens tokens, 2 word rows, 1 segment row, 1 or 2
\* position rows; every id in range but for at most two tokens, whose word id
\* or segment id is one off either end; a mask (ones, zeros and twos) only
\* where every id is in range.
ComputeContexts ==
  LET shapes == {bs \in (1..MaxTokens) \X (1..MaxTokens) : bs[1] * bs[2] <= MaxTokens}
      faults(seg) == {[word |-> w, segment |-> 0] : w \in {-1, 2}}
                     \cup (IF seg THEN {[word |-> 0, segment |-> g] : g \in {-1, 1}} ELSE {})
      fine == [word |-> 1, segment |-> 0]
      tokens(n, seg) ==
        {[k \in 1..n |-> IF k = a THEN x ELSE IF k = b THEN y ELSE fine] :
           a \in 1..n, b \in 1..n, x \in faults(seg) \cup {fine}, y \in faults(seg) \cup {fine}}
      calls_on(bs, seg, t) ==
        {[batch_size |-> bs[1], sequence_length |-> bs[2], hidden_size |-> HiddenSize,
          input_ids |-> Tup([k \in 1..(bs[1] * bs[2]) |-> t[k].word]),
          has_segment_ids |-> seg,
          segment_ids |-> IF seg THEN Tup([k \in 1..(bs[1] * bs[2]) |-> t[k].segment]) ELSE <<>>,
          word_embedding_length |-> 2,
          position_embedding_length |-> pos,
          segment_embedding_length |-> IF seg THEN 1 ELSE 0,
          has_mask |-> mask,
          mask |-> IF mask THEN Tup([k \in 1..(bs[1] * bs[2]) |-> k % 3]) ELSE <<>>] :
           pos \in 1..2,
           mask \in IF \A k \in 1..(bs[1] * bs[2]) : t[k] = fine THEN BOOLEAN ELSE {FALSE}}
      calls_of(bs, seg) == UNION {calls_on(bs, seg, t) : t \in tokens(bs[1] * bs[2], seg)}
  IN UNION {calls_of(bs, seg) : bs \in shapes, seg \in BOOLEAN}

InitCompute ==
  /\ NoOptimize
  /\ fn = "ComputeInternal"
  /\ fn_args \in ComputeContexts
  /\ fn_ret = NotReturned
  /\ failed = FALSE
  /\ task_pc = [index \in 0..(fn_args.batch_size * fn_args.sequence_length - 1) |-> "check"]
  /\ output_data = [offset \in 0..(fn_args.batch_size * fn_args.sequence_length * fn_args.hidden_size - 1) |->
                      [stage |-> "none", of |-> <<>>, by |-> {}]]

\* A task reads its ids: it stores failed and returns, or goes on.
TaskCheck ==
  \E index \in DOMAIN task_pc :
    /\ fn = "ComputeInternal"
    /\ task_pc[index] = "check"
    /\ IF IndexOutOfRange(fn_args, index)
       THEN failed' = TRUE /\ task_pc' = [task_pc EXCEPT ![index] = "done"]
       ELSE UNCHANGED failed /\ task_pc' = [task_pc EXCEPT ![index] = "subtotal"]
    /\ UNCHANGED <<graph_vars, opset, ms_opset, allow_extended_ops, calls, feeds, expected, initial, given,
                   fn_vars, ctx, pc, snapshot, i, j, inputs, outputs_leading_to_transpose, changed,
                   call, pushes, visits, output_data>>

\* The first loop of a task: the dequantized sum of the embedding rows.
TaskSubtotal ==
  \E index \in DOMAIN task_pc :
    /\ task_pc[index] = "subtotal"
    /\ output_data' = WriteRow(fn_args, output_data, index, "subtotal")
    /\ task_pc' = [task_pc EXCEPT ![index] = "center"]
    /\ UNCHANGED <<graph_vars, opset, ms_opset, allow_extended_ops, calls, feeds, expected, initial, given,
                   fn_vars, ctx, pc, snapshot, i, j, inputs, outputs_leading_to_transpose, changed,
                   call, pushes, visits, failed>>

\* The second loop: the mean is taken off.
TaskCenter ==
  \E index \in DOMAIN task_pc :
    /\ task_pc[index] = "center"
    /\ output_data' = WriteRow(fn_args, output_data, index, "center")
    /\ task_pc' = [task_pc EXCEPT ![index] = "scale"]
    /\ UNCHANGED <<graph_vars, opset, ms_opset, allow_extended_ops, calls, feeds, expected, initial, given,
                   fn_vars, ctx, pc, snapshot, i, j, inputs, outputs_leading_to_transpose, changed,
                   call, pushes, visits, failed>>

\* The third loop: division by the deviation, gamma and beta.
TaskScale ==
  \E index \in DOMAIN task_pc :
    /\ task_pc[index] = "scale"
    /\ output_data' = WriteRow(fn_args, output_data, index, "scale")
    /\ task_pc' = [task_pc EXCEPT ![index] = "done"]
    /\ UNCHANGED <<graph_vars, opset, ms_opset, allow_extended_ops, calls, feeds, expected, initial, given,
                   fn_vars, ctx, pc, snapshot, i, j, inputs, outputs_leading_to_transpose, changed,
                   call, pushes, visits, failed>>

\* TryBatchParallelFor has returned: failed is read, then the mask index is
\* computed.
ComputeReturn ==
  /\ fn = "ComputeInternal"
  /\ fn_ret = NotReturned
  /\ \A index \in DOMAIN task_pc : task_pc[index] = "done"
  /\ fn_ret' = IF failed
               THEN Status("INVALID_ARGUMENT", "input index out of range") @@ [mask_index |-> <<>>]
               ELSE Status("OK", "") @@ [mask_index |-> MaskIndex(fn_args)]
  /\ UNCHANGED <<graph_vars, opset, ms_opset, allow_extended_ops, calls, feeds, expected, initial, given,
                 fn, fn_args, ctx, pc, snapshot, i, j, inputs, outputs_leading_to_transpose, changed,
                 call, pushes, visits, kernel_vars>>

NextCompute ==
  \/ TaskCheck
  \/ TaskSubtotal
  \/ TaskCenter
  \/ TaskScale
  \/ ComputeReturn

SpecCompute == InitCompute /\ [][NextCompute]_vars

(* ------------------------------ checks --------------------------------- *)
\* C1: once Optimize has returned, every graph output holds the tensor the
\* same-named output of the graph before the call held, for the tensors fed
\* to the graph inputs.
OutputsPreserved ==
  pc = "done" => \A o \in graph_outputs : EvalValue(opset, G, feeds, o) = expected[o]

\* C2: on a graph without any Transpose node Optimize returns false and the
\* graph it leaves is the graph it was given.
NoTransposeNoChange ==
  (pc = "done" /\ \A n \in DOMAIN initial.nodes : initial.nodes[n].op # "Transpose")
    => (~changed /\ Content(G) = initial)

\* A run over a graph without Transpose has returned.
NoTransposeRunDone ==
  /\ pc = "done"
  /\ initial.nodes # <<>>
  /\ \A n \in DOMAIN initial.nodes : initial.nodes[n].op # "Transpose"

\* C3: a ProcessTranspose call that returns false, whether it stops before
\* the handler or the handler bails out, leaves nodes, value infos and
\* initializers as they were.
FalseMeansUntouched ==
  [][(call'.called /\ ~call'.changed)
       => (nodes' = nodes /\ value_info' = value_info /\ initializers' = initializers)]_vars

\* A handler was reached and returned false.
HandlerBailedOut == call.called /\ call.admitted /\ ~call.changed

\* C4 (as the code has it): when Transpose(p) feeds Transpose(inv(p)) the 2nd
\* transpose is removed, and the 1st too unless its output has another use.
\* When the 2nd's output is no graph output its consumers read the 1st's
\* input and no node is added.  When it is a graph output, its name moves to
\* the node producing the 1st's input, unless that input has no producing
\* node (a graph input or an initializer) or is a graph output itself: then
\* one Identity node from the 1st's input to the 2nd's output is added.
CancellationRewrite ==
  [][(/\ call'.called /\ call'.changed /\ call'.handler = "HandleTranspose"
      /\ \A k \in DOMAIN call'.perm : At(call'.perm, nodes[call'.node].attrs.perm[k]) = k - 1)
     => LET t == CursorTranspose
            n == call'.node
            x == nodes[t].inputs[1]
            m == nodes[t].outputs[1]
            y == nodes[n].outputs[1]
            producer == GetNodeProducingOutput(G, x)
            identity == y \in graph_outputs /\ (producer = 0 \/ x \in graph_outputs)
        IN /\ ~nodes'[n].live
           /\ nodes'[t].live = (\/ m \in graph_outputs
                                \/ \E c \in LiveIds(G) \ {n} : m \in Range(nodes[c].inputs))
           /\ Len(nodes') = Len(nodes) + (IF identity THEN 1 ELSE 0)
           /\ identity => /\ nodes'[Len(nodes')].op = "Identity"
                          /\ nodes'[Len(nodes')].inputs = <<x>>
                          /\ nodes'[Len(nodes')].outputs = <<y>>
                          /\ nodes'[Len(nodes')].live
           /\ y \notin graph_outputs =>
                \A c \in LiveIds(G) \ {n} : \A k \in DOMAIN nodes[c].inputs :
                  nodes[c].inputs[k] = y => nodes'[c].inputs[k] = x
           /\ (y \in graph_outputs /\ ~identity) => y \in Range(nodes'[producer].outputs)]_vars

\* A cancellation has put an Identity node in the graph.
CancelledThroughIdentity ==
  /\ call.called /\ call.changed /\ call.handler = "HandleTranspose"
  /\ \A k \in DOMAIN call.perm : At(call.perm, call.pre.attrs.perm[k]) = k - 1
  /\ nodes[Len(nodes)].op = "Identity"
  /\ nodes[Len(nodes)].live

\* C4 as stated: both transposes are removed (the 1st one having no other
\* use), and a node is added only when the 1st transpose's input and the
\* 2nd's output are both graph outputs.
CancellationAsStated ==
  [][(/\ call'.called /\ call'.changed /\ call'.handler = "HandleTranspose"
      /\ \A k \in DOMAIN call'.perm : At(call'.perm, nodes[call'.node].attrs.perm[k]) = k - 1)
     => /\ ~nodes'[call'.node].live
        /\ ((\A c \in LiveIds(G) \ {call'.node} :
                nodes[CursorTranspose].outputs[1] \notin Range(nodes[c].inputs))
            /\ nodes[CursorTranspose].outputs[1] \notin graph_outputs)
             => ~nodes'[CursorTranspose].live
        /\ Len(nodes') > Len(nodes) =>
             /\ nodes[CursorTranspose].inputs[1] \in graph_outputs
             /\ nodes[call'.node].outputs[1] \in graph_outputs]_vars

\* C5 (as the code has it): for x -> Transpose(p) -> Transpose(q) -> y with
\* q # inv(p), Optimize leaves one node, a Transpose from x to y whose perm
\* is i |-> p[q[i]].
FusedPerm ==
  LET p == initial.nodes[1].attrs.perm
      q == initial.nodes[2].attrs.perm
  IN (/\ pc = "done"
      /\ Len(initial.nodes) = 2
      /\ initial.nodes[1].op = "Transpose" /\ initial.nodes[2].op = "Transpose"
      /\ initial.nodes[2].inputs = initial.nodes[1].outputs
      /\ graph_outputs = {initial.nodes[2].outputs[1]}
      /\ \E k \in DOMAIN q : At(p, q[k]) # k - 1)
     => /\ Cardinality(LiveIds(G)) = 1
        /\ \A n \in LiveIds(G) :
             /\ nodes[n].op = "Transpose"
             /\ nodes[n].inputs = initial.nodes[1].inputs
             /\ nodes[n].outputs = initial.nodes[2].outputs
             /\ nodes[n].attrs.perm = Tup([k \in DOMAIN q |-> At(p, q[k])])

\* Two transposes that do not commute have been fused.
FusedNonCommuting ==
  LET p == initial.nodes[1].attrs.perm
      q == initial.nodes[2].attrs.perm
  IN /\ pc = "done" /\ changed
     /\ Len(initial.nodes) = 2
     /\ initial.nodes[1].op = "Transpose" /\ initial.nodes[2].op = "Transpose"
     /\ graph_outputs = {initial.nodes[2].outputs[1]}
     /\ \E k \in DOMAIN q : At(p, q[k]) # k - 1
     /\ \E k \in DOMAIN q : At(p, q[k]) # At(q, p[k])

\* C5 as stated: the perm that is left is i |-> q[p[i]].
FusedPermAsStated ==
  LET p == initial.nodes[1].attrs.perm
      q == initial.nodes[2].attrs.perm
  IN (/\ pc = "done"
      /\ Len(initial.nodes) = 2
      /\ initial.nodes[1].op = "Transpose" /\ initial.nodes[2].op = "Transpose"
      /\ initial.nodes[2].inputs = initial.nodes[1].outputs
      /\ graph_outputs = {initial.nodes[2].outputs[1]}
      /\ \E k \in DOMAIN q : At(p, q[k]) # k - 1)
     => /\ Cardinality(LiveIds(G)) = 1
        /\ \A n \in LiveIds(G) :
             /\ nodes[n].op = "Transpose"
             /\ nodes[n].attrs.perm = Tup([k \in DOMAIN p |-> At(q, p[k])])

\* C6: scenario S2, x -> Transpose([1,0,2]) -> Transpose([2,1,0]) -> y, ends
\* with one node, a Transpose reading x and producing y with perm [2,0,1].
ScenarioS2Fused ==
  (/\ pc = "done"
   /\ initial.nodes = <<Node("Transpose", <<2>>, <<3>>, Attr("perm", <<1, 0, 2>>)),
                        Node("Transpose", <<3>>, <<4>>, Attr("perm", <<2, 1, 0>>))>>
   /\ graph_outputs = {4})
  => /\ Cardinality(LiveIds(G)) = 1
     /\ \A n \in LiveIds(G) :
          [nodes[n] EXCEPT !.live = TRUE] = Node("Transpose", <<2>>, <<4>>, Attr("perm", <<2, 0, 1>>))

\* Scenario S2 has been run.
ScenarioS2Done ==
  /\ pc = "done"
  /\ changed
  /\ initial.nodes = <<Node("Transpose", <<2>>, <<3>>, Attr("perm", <<1, 0, 2>>)),
                       Node("Transpose", <<3>>, <<4>>, Attr("perm", <<2, 1, 0>>))>>
  /\ graph_outputs = {4}

\* C7 (as the code has it): in scenario S3, x -> Transpose([0,2,3,1]) -> Relu
\* -> y with x: [2,3,4,5] and the shapes of the other two values known, the
\* cost ProcessTranspose compares with 0 is -4 + 4 = 0, the push is rejected,
\* Optimize returns false and the graph stays as it was.
ScenarioS3Rejected ==
  (/\ initial.nodes = <<Node("Transpose", <<1>>, <<2>>, Attr("perm", <<0, 2, 3, 1>>)),
                        Node("Relu", <<2>>, <<3>>, NoAttrs)>>
   /\ graph_outputs = {3}
   /\ GetValueInfo(initial, 1) = Info(<<2, 3, 4, 5>>, "float")
   /\ \A v \in 2..3 : GetValueInfo(initial, v) = Info(<<2, 4, 5, 3>>, "float"))
  => /\ call.called => (~call.admitted /\ ~call.changed)
     /\ pc = "done" => (~changed /\ Content(G) = initial)

\* Scenario S3 has been run: ProcessTranspose was called on Relu's input.
ScenarioS3Done ==
  /\ pc = "done"
  /\ <<1, 0>> \in visits
  /\ initial.nodes = <<Node("Transpose", <<1>>, <<2>>, Attr("perm", <<0, 2, 3, 1>>)),
                       Node("Relu", <<2>>, <<3>>, NoAttrs)>>
  /\ GetValueInfo(initial, 1) = Info(<<2, 3, 4, 5>>, "float")
  /\ \A v \in 2..3 : GetValueInfo(initial, v) = Info(<<2, 4, 5, 3>>, "float")

\* C7 as stated: Optimize returns true and leaves x -> Relu ->
\* Transpose([0,2,3,1]) -> y.
ScenarioS3AsStated ==
  (/\ pc = "done"
   /\ initial.nodes = <<Node("Transpose", <<1>>, <<2>>, Attr("perm", <<0, 2, 3, 1>>)),
                        Node("Relu", <<2>>, <<3>>, NoAttrs)>>
   /\ graph_outputs = {3}
   /\ GetValueInfo(initial, 1) = Info(<<2, 3, 4, 5>>, "float")
   /\ \A v \in 2..3 : GetValueInfo(initial, v) = Info(<<2, 4, 5, 3>>, "float"))
  => /\ changed
     /\ nodes[2].inputs = <<1>>
     /\ \E n \in LiveIds(G) : /\ nodes[n].op = "Transpose"
                              /\ nodes[n].inputs = nodes[2].outputs
                              /\ nodes[n].outputs = <<3>>
                              /\ nodes[n].attrs.perm = <<0, 2, 3, 1>>

\* C8 (as the code has it): the push ProcessTranspose admits, the first of a
\* call, has EstimateTransposeInputsCost < 0 on the graph before it unless
\* the node is a Transpose or a MaxPool.  The pushes that follow in the call
\* are those UnsqueezeInput makes through its new Unsqueeze: no cost is
\* compared there, and the estimate is negative or 0.
PushCosts ==
  \A k \in DOMAIN pushes :
    /\ (k = 1 /\ pushes[k].op \notin {"Transpose", "MaxPool"}) => pushes[k].cost < 0
    /\ k > 1 => (pushes[k].op = "Unsqueeze" /\ pushes[k].cost <= 0)

\* UnsqueezeInput has pushed a Transpose through its Unsqueeze at cost 0.
UnsqueezePushAtZero ==
  \E k \in DOMAIN pushes : k > 1 /\ pushes[k].op = "Unsqueeze" /\ pushes[k].cost = 0

\* C8 as stated: every push through a node that is no Transpose and no
\* MaxPool has a negative estimate.
PushCostsAsStated ==
  \A k \in DOMAIN pushes : pushes[k].op \notin {"Transpose", "MaxPool"} => pushes[k].cost < 0

\* C9: ProcessTranspose is called at most once for a snapshot node and
\* input slot, and only on nodes of the snapshot, which holds the nodes the
\* graph had at the start and never grows; and every step of Optimize lowers
\* the triple <<loops left, nodes left, input slots left>> in the
\* lexicographic order, none of the three going below 0, so that a run ends
\* after a number of steps the size of the graph bounds.
EachSlotOnceAndBounded ==
  [][/\ call'.called => (<<i, j>> \notin visits /\ call'.node = snapshot[i + 1])
     /\ pc # "start" => (snapshot' = snapshot /\ Len(snapshot) = Len(initial.nodes))
     /\ LET left(p) == CASE p = "start" -> 3 [] p = "reverse" -> 2 [] p = "forward" -> 1 [] OTHER -> 0
            a == <<left(pc), Len(snapshot) - i, Len(inputs) - j>>
            b == <<left(pc'), Len(snapshot') - i', Len(inputs') - j'>>
        IN /\ \A k \in 1..3 : b[k] >= 0
           /\ \/ b[1] < a[1]
              \/ b[1] = a[1] /\ b[2] < a[2]
              \/ b[1] = a[1] /\ b[2] = a[2] /\ b[3] < a[3]]_vars

\* A run that created nodes has returned.
DoneWithNewNodes == pc = "done" /\ visits # {} /\ Len(nodes) > Len(snapshot)

\* C10: after a push with permutation perm, the handlers that rewrite one
\* axis leave perm[a], a being the axis before (or the default) normalized,
\* and the handlers whose axes are a set leave the ascending list of
\* {perm[a] : a in the normalized axes}.
AxisFollowsPerm ==
  (call.called /\ call.changed) =>
    LET pre     == call.pre
        now     == nodes[call.node]
        rank    == Len(call.perm)
        norm(a) == IF a < 0 THEN a + rank ELSE a
        default == CASE call.handler = "HandleSoftHardMax" -> -1
                     [] call.handler = "HandleQuantizeDequantizeLinear" -> 1
                     [] OTHER -> 0
        old     == IF "axis" \in pre.attrs.has THEN pre.attrs.axis ELSE default
        scalar  == GetValueInfo(G, pre.inputs[2]).known /\ GetValueInfo(G, pre.inputs[2]).dims = <<>>
        single  == \/ call.handler \in {"HandleConcat", "HandleSplit", "HandleArgMinMax",
                                        "HandleQLinearConcat"}
                   \/ call.handler = "HandleSoftHardMax" /\ opset >= 13
                   \/ call.handler = "HandleQuantizeDequantizeLinear" /\ opset >= 13 /\ ~scalar
        axes_now == ReadFromAttrOrInput(ctx, G, call.node, "axes", 1,
                                        IF now.op \in {"Squeeze", "ReduceSum"} THEN 13 ELSE 99)
    IN /\ single => ("axis" \in now.attrs.has /\ now.attrs.axis = At(call.perm, norm(old)))
       /\ (call.handler \in {"HandleReduceOp", "HandleReduceSum", "HandleSqueeze"} /\ call.pre_axes.some)
            => /\ axes_now.some
               /\ axes_now.val = SortedSeq({At(call.perm, norm(a)) : a \in Range(call.pre_axes.val)})

\* A reduction over two axes whose images under perm come out of order was pushed.
TwoAxesReordered ==
  /\ call.called /\ call.changed
  /\ call.handler \in {"HandleReduceOp", "HandleReduceSum"}
  /\ call.pre_axes.some
  /\ Len(call.pre_axes.val) = 2
  /\ LET a == call.pre_axes.val
         norm(x) == IF x < 0 THEN x + Len(call.perm) ELSE x
     IN At(call.perm, norm(a[1])) > At(call.perm, norm(a[2]))

InitializerInPlace ==
  \A n \in LiveIds(G) : \A k \in DOMAIN nodes[n].inputs :
    LET input == nodes[n].inputs[k]
    IN (IsConstant(G, input) /\ GetValueConsumers(G, input).comprehensive) =>
         \A perm \in Perms(Len(initializers[input].shape)) :
           LET g2     == TransposeInput(ctx, G, n, k - 1, perm, InvertPerm(perm))
               slots  == {s \in LiveIds(G) \X (1..8) : s[2] <= Len(nodes[s[1]].inputs)}
               others == {s \in slots : nodes[s[1]].inputs[s[2]] = input} \ {<<n, k>>}
               t      == g2.nodes[Len(g2.nodes)]
           IN /\ g2.nodes[n].inputs[k] = input
              /\ g2.initializers[input] = TransposeTensor(initializers[input], perm)
              /\ \A s \in slots \ (others \cup {<<n, k>>}) :
                   g2.nodes[s[1]].inputs[s[2]] = nodes[s[1]].inputs[s[2]]
              /\ IF others = {} THEN g2.nodes = [nodes EXCEPT ![n].inputs[k] = input]
                 ELSE /\ Len(g2.nodes) = Len(nodes) + 1
                      /\ t.live /\ t.op = "Transpose" /\ t.inputs = <<input>>
                      /\ t.attrs.perm = InvertPerm(perm)
                      /\ GetValueInfo(g2, t.outputs[1]) = GetValueInfo(G, input)
                      /\ EvalValue(opset, g2, feeds, t.outputs[1]) = initializers[input]
                      /\ \A s \in others : g2.nodes[s[1]].inputs[s[2]] = t.outputs[1]

\* A handler has transposed an initializer of the graph given in place and
\* another node reads it through a Transpose added for it.
InitializerShared ==
  /\ call.called /\ call.changed
  /\ \E v \in DOMAIN initializers \cap DOMAIN initial.initializers :
       /\ initializers[v] # initial.initializers[v]
       /\ \E n \in LiveIds(G) : /\ n > Len(initial.nodes)
                                /\ nodes[n].op = "Transpose"
                                /\ nodes[n].inputs = <<v>>

\* C13: a push through Shape, x -> Transpose(perm) -> Shape -> y, adds one
\* node, a Gather with axis 0 that produces y from the output of the Shape
\* and a new initializer perm'.  perm' is perm below opset 15, and from opset
\* 15 on perm[start:end], start and end taken from the attributes (0 and the
\* rank when absent), the rank added to negative values, clamped to
\* [0, rank].  The Shape reads x, has neither start nor end, and y evaluates
\* to what it did: the entries perm' picks from the shape of x.
ShapeThroughGather ==
  [][(call'.called /\ call'.changed /\ call'.handler = "HandleShape")
     => LET n      == call'.node
            x      == nodes[CursorTranspose].inputs[1]
            y      == nodes[n].outputs[1]
            perm   == call'.perm
            rank   == Len(perm)
            wrap(v)  == IF v < 0 THEN v + rank ELSE v
            clamp(v) == IF v < 0 THEN 0 ELSE IF v > rank THEN rank ELSE v
            start  == IF "start" \in nodes[n].attrs.has THEN nodes[n].attrs.start ELSE 0
            end    == IF "end" \in nodes[n].attrs.has THEN nodes[n].attrs.end ELSE rank
            window == IF opset >= 15 THEN SubSeq(perm, clamp(wrap(start)) + 1, clamp(wrap(end)))
                      ELSE perm
            gather == nodes'[Len(nodes')]
            after  == [nodes |-> nodes', initializers |-> initializers']
            shape  == EvalValue(opset, G, feeds, x).shape
        IN /\ Len(nodes') = Len(nodes) + 1
           /\ gather.live /\ gather.op = "Gather" /\ gather.outputs = <<y>>
           /\ "axis" \in gather.attrs.has /\ gather.attrs.axis = 0
           /\ gather.inputs[1] = nodes'[n].outputs[1]
           /\ gather.inputs[2] \in DOMAIN initializers'
           /\ DataInt64(initializers'[gather.inputs[2]]) = window
           /\ nodes'[n].live /\ nodes'[n].op = "Shape" /\ nodes'[n].inputs = <<x>>
           /\ nodes'[n].attrs.has \cap {"start", "end"} = {}
           /\ EvalValue(opset, after, feeds, y) = EvalValue(opset, G, feeds, y)
           /\ EvalValue(opset, after, feeds, y) = IntTensor(Tup([k \in DOMAIN window |-> At(shape, window[k])]))]_vars

\* A Shape with a negative start at opset 15 was pushed through, and the
\* Gather picks some entries of the shape but not all.
ShapeWindowGathered ==
  /\ call.called /\ call.changed /\ call.handler = "HandleShape"
  /\ opset >= 15
  /\ "start" \in call.pre.attrs.has /\ call.pre.attrs.start < 0
  /\ LET picked == initializers[nodes[Len(nodes)].inputs[2]].shape[1]
     IN 0 < picked /\ picked < Len(call.perm)

\* C14 (as the code has it): in scenario S4, a: [1,4,8,8], b: [8,8],
\* Add(Transpose(a, [0,2,3,1]), b) -> y, with the shapes of all values known
\* the cost ProcessTranspose compares with 0 is -3 for the transposed a, +2
\* for b and +3 for y, the push is rejected, Optimize returns false and the
\* graph stays as it was.
ScenarioS4Rejected ==
  (/\ initial.nodes = <<Node("Transpose", <<1>>, <<2>>, Attr("perm", <<0, 2, 3, 1>>)),
                        Node("Add", <<2, 4>>, <<3>>, NoAttrs)>>
   /\ graph_outputs = {3}
   /\ GetValueInfo(initial, 1) = Info(<<1, 4, 8, 8>>, "float")
   /\ GetValueInfo(initial, 4) = Info(<<8, 8>>, "float")
   /\ GetValueInfo(initial, 2).known /\ GetValueInfo(initial, 3).known)
  => /\ call.called => (~call.admitted /\ ~call.changed)
     /\ pc = "start" =>
          GateCost(G, GetHandler(nodes[2], FALSE), 2, <<0, 2, 3, 1>>, <<0, 1>>, {}) = 2
     /\ pc = "done" => (~changed /\ Content(G) = initial)

\* Scenario S4 has been run: ProcessTranspose was called on Add's first input.
ScenarioS4Done ==
  /\ pc = "done"
  /\ <<1, 0>> \in visits
  /\ initial.nodes = <<Node("Transpose", <<1>>, <<2>>, Attr("perm", <<0, 2, 3, 1>>)),
                       Node("Add", <<2, 4>>, <<3>>, NoAttrs)>>
  /\ GetValueInfo(initial, 1) = Info(<<1, 4, 8, 8>>, "float")
  /\ GetValueInfo(initial, 4) = Info(<<8, 8>>, "float")
  /\ GetValueInfo(initial, 2).known /\ GetValueInfo(initial, 3).known

\* C14 as stated: the transpose is pushed through Add, which then reads a and
\* a Transpose([0,3,1,2]) of the unsqueezed b, a Transpose([0,2,3,1])
\* producing y from the sum.
ScenarioS4AsStated ==
  (/\ pc = "done"
   /\ initial.nodes = <<Node("Transpose", <<1>>, <<2>>, Attr("perm", <<0, 2, 3, 1>>)),
                        Node("Add", <<2, 4>>, <<3>>, NoAttrs)>>
   /\ graph_outputs = {3}
   /\ GetValueInfo(initial, 1) = Info(<<1, 4, 8, 8>>, "float")
   /\ GetValueInfo(initial, 4) = Info(<<8, 8>>, "float")
   /\ GetValueInfo(initial, 2).known /\ GetValueInfo(initial, 3).known)
  => /\ changed
     /\ nodes[2].inputs[1] = 1
     /\ \E t \in LiveIds(G) : /\ nodes[t].op = "Transpose"
                              /\ nodes[t].outputs = <<nodes[2].inputs[2]>>
                              /\ nodes[t].attrs.perm = <<0, 3, 1, 2>>
     /\ \E n \in LiveIds(G) : /\ nodes[n].op = "Transpose"
                              /\ nodes[n].inputs = nodes[2].outputs
                              /\ nodes[n].outputs = <<3>>
                              /\ nodes[n].attrs.perm = <<0, 2, 3, 1>>

\* C15: a push through a reduction, a Squeeze or an ArgMin/ArgMax whose axes
\* are known (and distinct) leaves the old output name behind a Transpose of
\* the node's new output (behind none when the permutation is the identity).
\* When the node keeps the reduced dimensions the permutation is perm.
\* Otherwise (keepdims = 0, or Squeeze) it is perm without the entries in
\* new_axes, the ascending image of the axes under perm, each remaining entry
\* lowered by the number of removed axes below it: a valid permutation of
\* rank Len(perm) - Len(axes).  The output evaluates to what it did.  In
\* scenario S5 the axes become [1] and the permutation is [0,2,1].
SqueezedOutputPerm ==
  [][(/\ call'.called /\ call'.changed
      /\ call'.handler \in {"HandleReduceOp", "HandleReduceSum", "HandleSqueeze", "HandleArgMinMax"}
      /\ call'.handler # "HandleArgMinMax" => (call'.pre_axes.some /\ call'.pre_axes.val # <<>>))
     => LET n      == call'.node
            pre    == nodes[n]
            perm   == call'.perm
            rank   == Len(perm)
            norm(a) == IF a < 0 THEN a + rank ELSE a
            axes   == IF call'.handler = "HandleArgMinMax"
                      THEN <<IF "axis" \in pre.attrs.has THEN pre.attrs.axis ELSE 0>>
                      ELSE call'.pre_axes.val
            new_axes == {At(perm, norm(axes[k])) : k \in DOMAIN axes}
            keep   == pre.op # "Squeeze"
                        /\ (IF "keepdims" \in pre.attrs.has THEN pre.attrs.keepdims ELSE 1) # 0
            left   == SelectSeq(perm, LAMBDA p : p \notin new_axes)
            out_perm == IF keep THEN perm
                        ELSE Tup([k \in DOMAIN left |->
                                    Cardinality({a \in (0..(rank - 1)) \ new_axes : a < left[k]})])
            y      == pre.outputs[1]
            after  == [nodes |-> nodes', initializers |-> initializers']
        IN /\ IsValidPerm(out_perm)
           /\ ~keep => Len(out_perm) = rank - Len(axes)
           /\ IF IsIdentityPerm(out_perm) THEN nodes'[n].outputs[1] = y
              ELSE \E t \in LiveIds(after) :
                     /\ nodes'[t].op = "Transpose"
                     /\ nodes'[t].attrs.perm = out_perm
                     /\ nodes'[t].inputs = <<nodes'[n].outputs[1]>>
                     /\ nodes'[t].outputs[1] = y
           /\ EvalValue(opset, after, feeds, y) = EvalValue(opset, G, feeds, y)
           /\ (perm = <<0, 3, 1, 2>> /\ pre.op = "ReduceMean" /\ axes = <<2>> /\ ~keep)
                => (nodes'[n].attrs.axes = <<1>> /\ out_perm = <<0, 2, 1>>)]_vars

\* Scenario S5 has been pushed: the ReduceMean has axes [1] and y comes out of
\* a Transpose([0,2,1]) of its output.
ScenarioS5Pushed ==
  /\ call.called /\ call.changed /\ call.handler = "HandleReduceOp"
  /\ call.perm = <<0, 3, 1, 2>>
  /\ call.pre = Node("ReduceMean", <<2>>, <<3>>, Attr2("axes", <<2>>, "keepdims", 0))
  /\ GetValueInfo(initial, 1) = Info(<<2, 3, 4, 5>>, "float")
  /\ nodes[2].inputs = <<1>>
  /\ nodes[2].attrs.axes = <<1>>
  /\ \E t \in LiveIds(G) : /\ nodes[t].op = "Transpose"
                           /\ nodes[t].attrs.perm = <<0, 2, 1>>
                           /\ nodes[t].inputs = nodes[2].outputs
                           /\ nodes[t].outputs = <<3>>

\* C16 as stated: a call of Optimize that returns true never leaves a graph
\* equal, up to the names of its inner values, to the graph given to this
\* call or to an earlier call of the row.
NoGraphRecurs ==
  (pc = "done" /\ changed) =>
    [o \in graph_outputs |-> Term(G, o)]
      \notin (given \cup {[o \in graph_outputs |-> Term(initial, o)]})

\* C17: a push through Pad, x -> Transpose(perm) -> Pad(pads) -> y, leaves
\* Pad reading x with pads reordered by inv(perm), the starts and the ends
\* each on their own (entry k of either half is the old entry inv(perm)[k]),
\* and y behind a Transpose(perm) of Pad's new output (behind none when perm
\* is the identity), evaluating to what it did.  The pads are the attribute below opset 11 and the second input from
\* opset 11 on: a new initializer when the old input was one, and otherwise
\* a Gather (axis 0) of the old input with indices inv(perm) followed by
\* inv(perm) + rank.
PadsFollowPerm ==
  [][(call'.called /\ call'.changed /\ call'.handler = "HandlePad")
     => LET n     == call'.node
            x     == nodes[CursorTranspose].inputs[1]
            y     == nodes[n].outputs[1]
            perm  == call'.perm
            rank  == Len(perm)
            inv   == Tup([k \in 1..rank |-> CHOOSE m \in 0..(rank - 1) : At(perm, m) = k - 1])
            after == [nodes |-> nodes', initializers |-> initializers']
            old   == IF opset < 11 THEN nodes[n].attrs.pads
                     ELSE DataInt64(EvalValue(opset, G, feeds, nodes[n].inputs[2]))
            new   == IF opset < 11 THEN nodes'[n].attrs.pads
                     ELSE DataInt64(EvalValue(opset, after, feeds, nodes'[n].inputs[2]))
            source == GetNodeProducingOutput(after, nodes'[n].inputs[2])
        IN /\ Len(old) = 2 * rank /\ Len(new) = 2 * rank
           /\ \A k \in 1..rank : /\ new[k] = At(old, inv[k])
                                 /\ new[k + rank] = At(old, inv[k] + rank)
           /\ nodes'[n].inputs[1] = x
           /\ opset >= 11 =>
                IF IsConstant(G, nodes[n].inputs[2])
                THEN IsConstant(after, nodes'[n].inputs[2])
                ELSE /\ source # 0
                     /\ nodes'[source].op = "Gather"
                     /\ "axis" \in nodes'[source].attrs.has /\ nodes'[source].attrs.axis = 0
                     /\ nodes'[source].inputs[1] = nodes[n].inputs[2]
                     /\ IsConstant(after, nodes'[source].inputs[2])
                     /\ DataInt64(initializers'[nodes'[source].inputs[2]])
                          = inv \o Tup([k \in 1..rank |-> inv[k] + rank])
           /\ IF IsIdentityPerm(perm) THEN nodes'[n].outputs[1] = y
              ELSE \E t \in LiveIds(after) : /\ nodes'[t].op = "Transpose"
                                             /\ nodes'[t].attrs.perm = perm
                                             /\ nodes'[t].inputs = <<nodes'[n].outputs[1]>>
                                             /\ nodes'[t].outputs[1] = y
           /\ EvalValue(opset, after, feeds, y) = EvalValue(opset, G, feeds, y)]_vars

\* A Pad whose pads are computed (an input of the graph) was pushed through
\* with a permutation that is not its own inverse.
ComputedPadsGathered ==
  /\ call.called /\ call.changed /\ call.handler = "HandlePad"
  /\ opset >= 11
  /\ call.pre.inputs[2] \in graph_inputs
  /\ InvertPerm(call.perm) # call.perm
  /\ nodes[Len(nodes)].op = "Gather"

\* C18 (as the code has it): in the forward pass, once ProcessTranspose has
\* returned true for an input of a node, the driver leaves the node: the next
\* step moves on to the node after it in the snapshot, changing nothing in
\* the graph, whether or not other inputs of the node are fed by Transposes.
PushEndsNodeScan ==
  [][(pc = "forward" /\ call.called /\ call.changed)
       => (/\ i' = i + 1
           /\ j' = 0
           /\ nodes' = nodes /\ value_info' = value_info /\ initializers' = initializers)]_vars

\* ProcessTranspose has returned true for a node that still has an input fed
\* by a Transpose with a valid perm.
PushedWithTransposeLeft ==
  /\ pc = "forward" /\ call.called /\ call.changed
  /\ nodes[call.node].live
  /\ \E k \in DOMAIN nodes[call.node].inputs :
       LET t == GetNodeProducingOutput(G, nodes[call.node].inputs[k])
       IN t # 0 /\ IsOp(nodes[t], "Transpose") /\ GetPermAttrIfValid(nodes[t]).some

\* C18 as stated: after ProcessTranspose has returned true for an input of a
\* node, the driver scans the inputs of that node again, from the first one
\* of its live input list.
RescanAsStated ==
  [][(pc = "forward" /\ call.called /\ call.changed)
       => (i' = i /\ j' = 0 /\ inputs' = nodes[snapshot[i + 1]].inputs)]_vars


\* C19 as stated: when the context has allow_extended_ops false, whether
\* ProcessTranspose reaches the handler for the input under the cursor is the
\* same in the graph where the nodes whose key is in the extended table only
\* are given a key that is in neither table.
ExtendedTableIgnored ==
  LET ExtendedOnly(node) == GetHandler(node, FALSE) = NoHandler /\ GetHandler(node, TRUE) # NoHandler
      Unlisted == [G EXCEPT !.nodes = [n \in DOMAIN nodes |->
                     IF ExtendedOnly(nodes[n]) THEN [nodes[n] EXCEPT !.domain = "unlisted"]
                     ELSE nodes[n]]]
  IN (AtTranspose /\ ~ctx.allow_extended_ops)
       => \A input_indices \in CursorInputIndices :
            Admits(ctx, G, snapshot[i + 1], nodes[CursorTranspose].attrs.perm, j,
                   outputs_leading_to_transpose, input_indices)
            = Admits(ctx, Unlisted, snapshot[i + 1], nodes[CursorTranspose].attrs.perm, j,
                     outputs_leading_to_transpose, input_indices)


\* C20: when the reverse walk is over, outputs_leading_to_transpose is the
\* least fixed point of: the first input of every Transpose node is in the
\* set; when a node that is not a Transpose has a handler that transposes
\* outputs and one of its outputs is in the set, the inputs the handler's
\* transposible_inputs_fn lists are in the set.  Where that function reads an
\* unknown shape and its result is not determined, the set lies between the
\* least fixed points taking the inputs every result lists and the inputs
\* some result lists.
ReverseWalkIsLeastFixedPoint ==
  LET Seed == {nodes[n].inputs[1] : n \in {m \in Range(snapshot) : IsOp(nodes[m], "Transpose")}}
      Vectors(n) ==
        TransposibleInputs(GetHandler(nodes[n], ctx.allow_extended_ops).transposible_inputs_fn, G, n)
      Listed(n, vec) == {At(nodes[n].inputs, vec[k]) : k \in DOMAIN vec}
      Marks(n, upper) ==
        IF upper THEN UNION {Listed(n, vec) : vec \in Vectors(n)}
        ELSE {v \in UNION {Listed(n, vec) : vec \in Vectors(n)} : \A vec \in Vectors(n) : v \in Listed(n, vec)}
      Propagates(n, S) ==
        /\ ~IsOp(nodes[n], "Transpose")
        /\ \E k \in DOMAIN nodes[n].outputs : nodes[n].outputs[k] \in S
        /\ GetHandler(nodes[n], ctx.allow_extended_ops) # NoHandler
        /\ GetHandler(nodes[n], ctx.allow_extended_ops).transposes_outputs
      Step(S, upper) ==
        S \cup UNION {IF Propagates(n, S) THEN Marks(n, upper) ELSE {} : n \in Range(snapshot)}
      LeastFixedPoint(upper) ==
        LET F[k \in 0..Len(snapshot)] == IF k = 0 THEN Seed ELSE Step(F[k - 1], upper)
        IN F[Len(snapshot)]
  IN (pc = "forward" /\ i = 0 /\ j = 0 /\ ~call.called)
       => /\ Step(LeastFixedPoint(FALSE), FALSE) = LeastFixedPoint(FALSE)
          /\ Step(LeastFixedPoint(TRUE), TRUE) = LeastFixedPoint(TRUE)
          /\ LeastFixedPoint(FALSE) \subseteq outputs_leading_to_transpose
          /\ outputs_leading_to_transpose \subseteq LeastFixedPoint(TRUE)
          /\ (\A n \in Range(snapshot) :
                GetHandler(nodes[n], ctx.allow_extended_ops) # NoHandler => Cardinality(Vectors(n)) = 1)
               => outputs_leading_to_transpose = LeastFixedPoint(TRUE)

\* The reverse walk is over and has marked, next to the input of a Transpose,
\* a value two nodes before it, the transposible inputs being determined.
MarkedTwoNodesBack ==
  /\ pc = "forward" /\ i = 0 /\ j = 0 /\ ~call.called
  /\ \A n \in Range(snapshot) :
       GetHandler(nodes[n], ctx.allow_extended_ops) # NoHandler
         => Cardinality(TransposibleInputs(GetHandler(nodes[n], ctx.allow_extended_ops).transposible_inputs_fn,
                                           G, n)) = 1
  /\ \E t, n, m \in Range(snapshot) :
       /\ IsOp(nodes[t], "Transpose")
       /\ ~IsOp(nodes[n], "Transpose") /\ ~IsOp(nodes[m], "Transpose")
       /\ nodes[t].inputs[1] \in Range(nodes[n].outputs)
       /\ \E v \in Range(nodes[n].inputs) \cap Range(nodes[m].outputs) :
            v \in outputs_leading_to_transpose
       /\ Range(nodes[m].inputs) \cap outputs_leading_to_transpose # {}


\* C21 (as the code has it): after a handler has returned true, every live
\* Transpose node added since Optimize was called whose input has a known
\* shape has an output whose shape, when known, is the input's shape permuted
\* by its perm; the output's shape is unknown only when the graph Optimize
\* was given holds a Transpose with a known input shape and an unknown output
\* shape (TransposeInput copies the value info of the value it replaces).
CreatedTransposeShapesCopied ==
  (pc = "forward" /\ call.called /\ call.changed)
    => \A n \in LiveIds(G) \ DOMAIN initial.nodes :
         (IsOp(nodes[n], "Transpose") /\ GetValueInfo(G, nodes[n].inputs[1]).known)
           => LET in  == GetValueInfo(G, nodes[n].inputs[1])
                  out == GetValueInfo(G, nodes[n].outputs[1])
              IN IF out.known
                 THEN /\ Len(out.dims) = Len(nodes[n].attrs.perm)
                      /\ Len(in.dims) = Len(nodes[n].attrs.perm)
                      /\ \A k \in DOMAIN out.dims : out.dims[k] = At(in.dims, nodes[n].attrs.perm[k])
                 ELSE \E m \in DOMAIN initial.nodes :
                        /\ IsOp(initial.nodes[m], "Transpose")
                        /\ GetValueInfo(initial, initial.nodes[m].inputs[1]).known
                        /\ ~GetValueInfo(initial, initial.nodes[m].outputs[1]).known

\* A handler has returned true and left a Transpose it added, not the
\* identity, with known input and output shapes, and another one with a
\* known input shape and an unknown output shape.
TransposesAddedBothWays ==
  /\ pc = "forward" /\ call.called /\ call.changed
  /\ \E n, m \in LiveIds(G) \ DOMAIN initial.nodes :
       /\ IsOp(nodes[n], "Transpose") /\ IsOp(nodes[m], "Transpose")
       /\ ~IsIdentityPerm(nodes[n].attrs.perm)
       /\ GetValueInfo(G, nodes[n].inputs[1]).known /\ GetValueInfo(G, nodes[n].outputs[1]).known
       /\ GetValueInfo(G, nodes[m].inputs[1]).known /\ ~GetValueInfo(G, nodes[m].outputs[1]).known

\* C21 as stated: after a handler has returned true, every live Transpose node
\* added since Optimize was called whose input has a known shape has an
\* output with a known shape, the input's shape permuted by its perm.
CreatedTransposeShapes ==
  (pc = "forward" /\ call.called /\ call.changed)
    => \A n \in LiveIds(G) \ DOMAIN initial.nodes :
         (IsOp(nodes[n], "Transpose") /\ GetValueInfo(G, nodes[n].inputs[1]).known)
           => LET in  == GetValueInfo(G, nodes[n].inputs[1])
                  out == GetValueInfo(G, nodes[n].outputs[1])
              IN /\ out.known
                 /\ Len(out.dims) = Len(nodes[n].attrs.perm)
                 /\ Len(in.dims) = Len(nodes[n].attrs.perm)
                 /\ \A k \in DOMAIN out.dims : out.dims[k] = At(in.dims, nodes[n].attrs.perm[k])


\* C22: after a handler has returned true, every value name is an output of
\* at most one live node, at one position, and every non-empty input of a
\* live node is a graph input, an initializer the graph still holds or an
\* output of a live node.
GraphWellFormed ==
  (pc = "forward" /\ call.called /\ call.changed)
    => /\ \A n, m \in LiveIds(G) :
            \A k \in DOMAIN nodes[n].outputs, l \in DOMAIN nodes[m].outputs :
              (nodes[n].outputs[k] # 0 /\ nodes[n].outputs[k] = nodes[m].outputs[l])
                => (n = m /\ k = l)
       /\ \A n \in LiveIds(G) :
            \A k \in DOMAIN nodes[n].inputs :
              nodes[n].inputs[k] # 0
                => \/ nodes[n].inputs[k] \in graph_inputs
                   \/ nodes[n].inputs[k] \in DOMAIN initializers
                   \/ GetNodeProducingOutput(G, nodes[n].inputs[k]) # 0

\* A handler has returned true having removed a node and an initializer of
\* the graph Optimize was given.
NodeAndInitializerRemoved ==
  /\ pc = "forward" /\ call.called /\ call.changed
  /\ \E n \in DOMAIN initial.nodes : ~nodes[n].live
  /\ \E v \in DOMAIN initial.initializers : v \notin DOMAIN initializers


\* C23 as stated: after a handler has returned true, no Unsqueeze node added
\* since Optimize was called reads the value, with the axes, of an Unsqueeze
\* node the graph already had and still has.
UnsqueezeReused ==
  (pc = "forward" /\ call.called /\ call.changed)
    => \A n \in LiveIds(G) \ DOMAIN initial.nodes :
         \A m \in LiveIds(G) \cap DOMAIN initial.nodes :
           ~(/\ IsOp(nodes[n], "Unsqueeze") /\ IsOp(nodes[m], "Unsqueeze")
             /\ nodes[n].inputs[1] = nodes[m].inputs[1]
             /\ ReadFromAttrOrInput(ctx, G, n, "axes", 1, 13)
                  = ReadFromAttrOrInput(ctx, G, m, "axes", 1, 13))


\* C24 as stated: when NormalizeAndValidateAxes returns true, every entry of
\* the axes it leaves is in [0, rank) and no two entries are equal.
AcceptedAxesValid ==
  (fn = "NormalizeAndValidateAxes" /\ fn_ret # NotReturned /\ fn_ret.ok)
    => /\ \A k \in DOMAIN fn_ret.axes : fn_ret.axes[k] >= 0 /\ fn_ret.axes[k] < fn_args.rank
       /\ \A k, l \in DOMAIN fn_ret.axes : k # l => fn_ret.axes[k] # fn_ret.axes[l]


\* C25 (as the code has it): in the forward pass a step removes only the node
\* the loop is at, nodes of the snapshot before it and nodes added during the
\* run; and every node a handler that returns true leaves added is anchored:
\* it is read by a node the graph had before the call, or it carries the name
\* an output of the node the loop is at had before the call (the Transpose,
\* Gather or Identity put after the node or in its place), or it is read by
\* an added node that is anchored (the NhwcMaxPool put in the place of a
\* MaxPool, read by the Transpose added after it).
InsertedAnchored ==
  [][(pc = "forward" /\ call'.called /\ call'.changed)
       => /\ \A k \in DOMAIN snapshot :
               (nodes[snapshot[k]].live /\ ~nodes'[snapshot[k]].live) => k <= i + 1
          /\ LET added == {n \in (DOMAIN nodes') \ (DOMAIN nodes) : nodes'[n].live}
                 Direct(n) ==
                   \/ \E m \in DOMAIN nodes :
                        nodes'[m].live /\ Range(nodes'[n].outputs) \cap Range(nodes'[m].inputs) # {}
                   \/ Range(nodes'[n].outputs) \cap (Range(nodes[snapshot[i + 1]].outputs) \ {0}) # {}
                 Anchored[k \in 0..Cardinality(added)] ==
                   IF k = 0 THEN {n \in added : Direct(n)}
                   ELSE Anchored[k - 1]
                        \cup {n \in added : \E m \in Anchored[k - 1] :
                                 Range(nodes'[n].outputs) \cap Range(nodes'[m].inputs) # {}}
             IN Anchored[Cardinality(added)] = added]_vars

\* HandleMaxPool has returned true: the MaxPool is removed and a NhwcMaxPool
\* read by an added Transpose only is in its place.
MaxPoolReplaced ==
  /\ pc = "forward" /\ call.called /\ call.changed /\ call.handler = "HandleMaxPool"
  /\ ~nodes[call.node].live
  /\ \E n, t \in LiveIds(G) \ DOMAIN initial.nodes :
       /\ nodes[n].op = "NhwcMaxPool" /\ IsOp(nodes[t], "Transpose")
       /\ nodes[t].inputs[1] \in Range(nodes[n].outputs)
       /\ \A m \in LiveIds(G) \ {t} : Range(nodes[n].outputs) \cap Range(nodes[m].inputs) = {}

\* C25 as stated: in the forward pass a step removes only the node the loop is
\* at, nodes of the snapshot before it and nodes added during the run; and
\* every node a handler that returns true leaves added is read by a node the
\* graph had before the call, or is a Transpose, Gather or Identity reading an
\* output of the node the loop is at.
InsertedAsStated ==
  [][(pc = "forward" /\ call'.called /\ call'.changed)
       => /\ \A k \in DOMAIN snapshot :
               (nodes[snapshot[k]].live /\ ~nodes'[snapshot[k]].live) => k <= i + 1
          /\ \A n \in (DOMAIN nodes') \ (DOMAIN nodes) :
               nodes'[n].live
                 => \/ \E m \in DOMAIN nodes :
                         nodes'[m].live /\ Range(nodes'[n].outputs) \cap Range(nodes'[m].inputs) # {}
                    \/ /\ nodes'[n].op \in {"Transpose", "Gather", "Identity"}
                       /\ Range(nodes'[n].inputs) \cap Range(nodes'[snapshot[i + 1]].outputs) # {}
                       /\ nodes'[snapshot[i + 1]].live]_vars


\* C26 as stated: for a rank of 1 or more ChannelLastToFirstPerm returns the
\* valid permutation [0, rank - 1, 1, ..., rank - 2] of that length and
\* writes no element outside its rank-element vector.
ChannelLastToFirstInBounds ==
  (fn = "ChannelLastToFirstPerm" /\ fn_ret # NotReturned /\ fn_args.rank >= 1)
    => /\ Len(fn_ret.perm) = fn_args.rank
       /\ IsValidPerm(fn_ret.perm)
       /\ \A k \in DOMAIN fn_ret.perm :
            fn_ret.perm[k] = IF k = 1 THEN 0 ELSE IF k = 2 THEN fn_args.rank - 1 ELSE k - 2
       /\ fn_ret.written \subseteq 0..(fn_args.rank - 1)


\* C27: below opset 13 the Softmax-family handler pushes exactly when no
\* dimension crosses the split point a (the normalized axis, 1 by default),
\* it leaves the axis attribute as it was, the dimensions on each side of
\* the split are the same set before and after, and the graph outputs are
\* the ones the graph had before.
SplitPointPushPreserves ==
  /\ (call.called /\ call.handler = "HandleSoftHardMax" /\ opset < 13) =>
       LET rank == Len(call.perm)
           old  == IF "axis" \in call.pre.attrs.has THEN call.pre.attrs.axis ELSE 1
           a    == IF old < 0 THEN old + rank ELSE old
       IN /\ call.changed <=> \A d \in 0..(rank - 1) : (d < a) <=> (At(call.perm, d) < a)
          /\ call.changed =>
               /\ nodes[call.node].attrs.has = call.pre.attrs.has
               /\ nodes[call.node].attrs.axis = call.pre.attrs.axis
               /\ {At(call.perm, d) : d \in 0..(a - 1)} = 0..(a - 1)
               /\ {At(call.perm, d) : d \in a..(rank - 1)} = a..(rank - 1)
  /\ (pc = "done" /\ opset < 13
        /\ \E n \in DOMAIN nodes : nodes[n].live /\ nodes[n].op \in {"Softmax", "Hardmax", "LogSoftmax"})
       => \A o \in graph_outputs : EvalValue(opset, G, feeds, o) = expected[o]


\* C28: ChangeLayout returns true exactly when the handler of some node of
\* the graph, found by op type in the layout map, asked for the change; when
\* it returns false the graph is the one it was given and Optimize was not
\* called.  The step on a changed node leaves, before Optimize is called, the
\* node (or its replacement, which has the attributes, the other inputs and
\* the number of outputs of the original) reading its first input transposed
\* by perm_inv and each output name produced by a Transpose(perm) of the
\* node's new output, with perm = ChannelLastToFirstPerm(rank) or its inverse
\* when last_to_first, perm and perm_inv composing to the identity (no
\* Transpose is put after the outputs when perm is the identity), and every
\* output name keeps the value info it had.
ChangeLayoutWraps ==
  [][fn = "ChangeLayout" =>
       LET map     == fn_args.layout_handler_map
           Gp      == [nodes |-> nodes', value_info |-> value_info', initializers |-> initializers',
                       next_name |-> next_name', graph_inputs |-> graph_inputs',
                       graph_outputs |-> graph_outputs', pushes |-> <<>>]
           asked   == \E n \in DOMAIN initial.nodes :
                        /\ initial.nodes[n].live
                        /\ initial.nodes[n].op \in DOMAIN map
                        /\ LayoutHandler(map, initial, n).should_change_layout
           clf(r)  == ChannelLastToFirstPerm(r)
       IN /\ (fn_ret = NotReturned /\ fn_ret' # NotReturned) =>
               /\ fn_ret'.value <=> asked
               /\ fn_ret'.value <=> pc = "done"
               /\ ~fn_ret'.value => (pc = "layout" /\ Content(Gp) = initial /\ visits = {} /\ pushes = <<>>)
          /\ (pc = "layout" /\ i < Len(snapshot)) =>
               LET n      == snapshot[i + 1]
                   before == nodes[n]
                   result == LayoutHandler(map, G, n)
               IN IF before.op \in DOMAIN map /\ result.should_change_layout
                  THEN LET replace  == result.new_op_type.some \/ result.new_domain.some
                           n1       == IF replace THEN Len(nodes) + 1 ELSE n
                           after    == nodes'[n1]
                           perm     == IF fn_args.last_to_first THEN InvertPerm(clf(result.rank))
                                       ELSE clf(result.rank)
                           perm_inv == IF fn_args.last_to_first THEN clf(result.rank)
                                       ELSE InvertPerm(clf(result.rank))
                       IN /\ IsValidPerm(perm) /\ IsValidPerm(perm_inv)
                          /\ IsIdentityPerm(ComposePerm(perm, perm_inv))
                          /\ IsIdentityPerm(ComposePerm(perm_inv, perm))
                          /\ after.live /\ (replace => ~nodes'[n].live)
                          /\ after.op = (IF result.new_op_type.some THEN result.new_op_type.val ELSE before.op)
                          /\ after.domain = (IF result.new_domain.some THEN result.new_domain.val
                                             ELSE before.domain)
                          /\ after.attrs = before.attrs
                          /\ Len(after.inputs) = Len(before.inputs)
                          /\ \A k \in 2..Len(before.inputs) : after.inputs[k] = before.inputs[k]
                          /\ EvalValue(opset, Gp, feeds, after.inputs[1])
                               = TransposeTensor(EvalValue(opset, G, feeds, before.inputs[1]), perm_inv)
                          /\ Len(after.outputs) = Len(before.outputs)
                          /\ \A k \in DOMAIN before.outputs :
                               LET name == before.outputs[k]
                                   t    == GetNodeProducingOutput(Gp, name)
                               IN /\ GetValueInfo(Gp, name) = GetValueInfo(G, name)
                                  /\ IF IsIdentityPerm(perm) THEN after.outputs[k] = name
                                     ELSE /\ t # 0 /\ IsOp(nodes'[t], "Transpose")
                                          /\ nodes'[t].attrs.perm = perm
                                          /\ nodes'[t].inputs = <<after.outputs[k]>>
                                          /\ GetValueInfo(Gp, after.outputs[k])
                                               = [GetValueInfo(G, name) EXCEPT
                                                    !.dims = IF GetValueInfo(G, name).known
                                                             THEN Tup([d \in DOMAIN perm_inv |->
                                                                         At(@, perm_inv[d])])
                                                             ELSE @]
                          /\ changed'
                  ELSE Content(Gp) = Content(G) /\ changed' = changed
          /\ (pc = "layout" /\ pc' = "start") =>
               \A n \in DOMAIN initial.nodes : \A k \in DOMAIN initial.nodes[n].outputs :
                 LET name == initial.nodes[n].outputs[k]
                 IN (initial.nodes[n].live /\ GetNodeProducingOutput(G, name) # 0)
                      => GetValueInfo(G, name) = initial.value_info[name]]_vars

\* ChangeLayout has returned true on a channel-last graph of rank at least 4
\* in which it has put a MaxPool in the place of a NhwcMaxPool.
LayoutChangedToChannelFirst ==
  /\ fn = "ChangeLayout" /\ fn_ret # NotReturned /\ fn_ret.value
  /\ fn_args.last_to_first
  /\ \E n \in DOMAIN nodes :
       /\ n > Len(initial.nodes) /\ nodes[n].live /\ nodes[n].op = "MaxPool"
       /\ \E m \in DOMAIN initial.nodes :
            /\ initial.nodes[m].op = "NhwcMaxPool"
            /\ GetValueInfo(initial, initial.nodes[m].inputs[1]).known
            /\ Len(GetValueInfo(initial, initial.nodes[m].inputs[1]).dims) >= 4


\* C29: CheckQuantizedInputs returns OK exactly when every scale and
\* zero-point tensor it inspects (word, position, gamma, beta, and segment
\* when segment ids are given) is a scalar or a 1-element vector, whatever
\* the element types are, and INVALID_ARGUMENT otherwise.
QuantizedInputsChecked ==
  (fn = "CheckQuantizedInputs" /\ fn_ret # NotReturned) =>
    LET inspected == {k \in 8..17 : k \in {10, 15} => fn_args.has_segment_ids}
    IN /\ fn_ret.code \in {"OK", "INVALID_ARGUMENT"}
       /\ fn_ret.code = "OK" <=> \A k \in inspected : IsScalarOr1ElementVector(fn_args.input[k])


\* C30: whatever the order the steps of the per-token tasks are taken in,
\* ComputeInternal returns INVALID_ARGUMENT ("input index out of range")
\* exactly when some token has a word id outside [0, word_embedding_length),
\* a position (index mod sequence_length) >= position_embedding_length, or,
\* with segment ids, a segment id outside [0, segment_embedding_length); the
\* task of such a token writes no output element, and every output element
\* is written by the task of its own row only.
IndexFaultsReported ==
  fn = "ComputeInternal" =>
    LET n == fn_args.batch_size * fn_args.sequence_length
        out_of_range(index) ==
          \/ fn_args.input_ids[index + 1] \notin 0..(fn_args.word_embedding_length - 1)
          \/ index % fn_args.sequence_length >= fn_args.position_embedding_length
          \/ /\ fn_args.has_segment_ids
             /\ fn_args.segment_ids[index + 1] \notin 0..(fn_args.segment_embedding_length - 1)
    IN /\ fn_ret # NotReturned =>
            /\ fn_ret.code = (IF \E index \in 0..(n - 1) : out_of_range(index)
                              THEN "INVALID_ARGUMENT" ELSE "OK")
            /\ fn_ret.code = "INVALID_ARGUMENT" => fn_ret.message = "input index out of range"
       /\ \A offset \in DOMAIN output_data : \A index \in output_data[offset].by :
            /\ ~out_of_range(index)
            /\ offset \div fn_args.hidden_size = index

\* INVALID_ARGUMENT was returned for two tokens out of range after the task of
\* a third token had written its whole row.
FailedNextToWrittenRow ==
  /\ fn = "ComputeInternal" /\ fn_ret # NotReturned /\ fn_ret.code = "INVALID_ARGUMENT"
  /\ Cardinality({index \in DOMAIN task_pc : IndexOutOfRange(fn_args, index)}) = 2
  /\ \E index \in DOMAIN task_pc :
       \A offset \in OutputRow(fn_args, index) : output_data[offset].stage = "scale"

=============================================================================
